---- MODULE Spec2Model ----
(***************************************************************************)
(* Storage credential / configuration subsystem of databasus:              *)
(* StorageService (backend/internal/features/storages/service.go) over a   *)
(* persistent StorageRepository, the workspace-authorization collaborator, *)
(* the attachment counter and the FieldEncryptor; the controller of the    *)
(* direct connection test; the storage page and its edit form              *)
(* (frontend/src/features/storages/ui/StorageComponent.tsx); and           *)
(* authenticateWithRetry of the two SMTP senders.                          *)
(*                                                                         *)
(* Strings that matter for encryption are sequences of tokens: the empty   *)
(* string is << >>, the plaintext "k1" is <<"k1">> and the ciphertext      *)
(* "enc:..." is <<"enc:">> \o plaintext, so that strings.HasPrefix(v,      *)
(* "enc:") is a test of the first token and a second encryption is         *)
(* visible as a second marker.                                             *)
(***************************************************************************)
EXTENDS Integers, Sequences, FiniteSets, TLC

\* ------------------------------------------------------------------ bounds
MaxStorages == 2
NumDatabases == 2

\* -------------------------------------------------------------- constants
Nil == 0
NoWorkspace == "none"

StorageIds == 1..MaxStorages
Databases == 1..NumDatabases
Workspaces == {"W1", "W2"}

StorageTypes ==
  {"LOCAL", "S3", "NAS", "AZURE_BLOB", "FTP", "SFTP", "GOOGLE_DRIVE", "RCLONE"}

UserRoleAdmin == "ADMIN"
UserRoleMember == "MEMBER"

\* The actors: a global administrator, a user who is a member of both
\* workspaces, a user who is a viewer of W1 and a stranger to W2, the owner
\* of W1 who is a stranger to W2, and a workspace admin of W2 who is a
\* stranger to W1.
Users ==
  { [id |-> "root",  role |-> UserRoleAdmin],
    [id |-> "alice", role |-> UserRoleMember],
    [id |-> "bob",   role |-> UserRoleMember],
    [id |-> "carol", role |-> UserRoleMember],
    [id |-> "dave",  role |-> UserRoleMember] }

WorkspaceRole(workspaceID, user) ==
  CASE user.id = "alice" -> "MEMBER"
    [] user.id = "bob" /\ workspaceID = "W1" -> "VIEWER"
    [] user.id = "carol" /\ workspaceID = "W1" -> "OWNER"
    [] user.id = "dave" /\ workspaceID = "W2" -> "ADMIN"
    [] OTHER -> "NONE"

\* Errors of the service (errors.go) and of the collaborators.
NoError == "nil"
ErrInsufficientPermissionsToManageStorage == "insufficient permissions to manage storage in this workspace"
ErrInsufficientPermissionsToViewStorage == "insufficient permissions to view storage in this workspace"
ErrInsufficientPermissionsToViewStorages == "insufficient permissions to view storages in this workspace"
ErrInsufficientPermissionsToTestStorage == "insufficient permissions to test storage in this workspace"
ErrInsufficientPermissionsInSourceWorkspace == "insufficient permissions to manage storage in source workspace"
ErrInsufficientPermissionsInTargetWorkspace == "insufficient permissions to manage storage in target workspace"
ErrStorageDoesNotBelongToWorkspace == "storage does not belong to this workspace"
ErrStorageHasAttachedDatabases == "storage has attached databases and cannot be deleted"
ErrStorageHasAttachedDatabasesCannotTransfer == "storage has attached databases and cannot be transferred"
ErrStorageHasOtherAttachedDatabasesCannotTransfer == "storage has other attached databases and cannot be transferred"
ErrSystemStorageCannotBeTransferred == "system storage cannot be transferred between workspaces"
ErrSystemStorageCannotBeMadePrivate == "system storage cannot be changed to non-system"
ErrLocalStorageNotAllowedInCloudMode == "local storage can only be managed by administrators in cloud mode"
ErrRecordNotFound == "record not found"
ErrValidation == "validation failed"
ErrConnectionFailed == "connection failed"
ErrSystemStorageBlocksWorkspaceDeletion == "system storage cannot be deleted due to workspace deletion, please transfer or remove storage first"

\* ------------------------------------------------------------ encryption
Empty == << >>
EncPrefix == "enc:"

IsEncrypted(v) == Len(v) > 0 /\ v[1] = EncPrefix

Encrypt(itemID, plaintext) == <<EncPrefix>> \o plaintext

Decrypt(itemID, ciphertext) == Tail(ciphertext)

\* --------------------------------------------------------- the aggregate
SensitiveFields(type) ==
  CASE type = "LOCAL" -> {}
    [] type = "S3" -> {"s3AccessKey", "s3SecretKey"}
    [] type = "NAS" -> {"password"}
    [] type = "AZURE_BLOB" -> {"connectionString", "accountKey"}
    [] type = "FTP" -> {"password"}
    [] type = "SFTP" -> {"password", "privateKey"}
    [] type = "GOOGLE_DRIVE" -> {"clientSecret", "tokenJson"}
    [] type = "RCLONE" -> {"configContent"}

RequiredSensitiveFields(type) ==
  CASE type = "S3" -> {"s3AccessKey", "s3SecretKey"}
    [] type = "NAS" -> {"password"}
    [] type = "FTP" -> {"password"}
    [] type = "GOOGLE_DRIVE" -> {"clientSecret"}
    [] type = "RCLONE" -> {"configContent"}
    [] OTHER -> {}

\* A variant payload: nil, or its non-sensitive configuration and its
\* sensitive fields. config stands for the non-sensitive fields a payload
\* must have; authMethod and accountName are the two other non-sensitive
\* fields of the Azure payload the edit form reads, empty elsewhere.
NullPayload ==
  [ isNil |-> TRUE, config |-> "", authMethod |-> "", accountName |-> "",
    secrets |-> [f \in {} |-> Empty] ]

Payload(config, secrets) ==
  [ isNil |-> FALSE, config |-> config, authMethod |-> "", accountName |-> "",
    secrets |-> secrets ]

NullPayloads == [t \in StorageTypes |-> NullPayload]

\* A request body or a row: the shared fields and the eight payload slots.
MakeStorage(id, workspaceID, name, type, isSystem, config, secrets) ==
  [ id |-> id, workspaceID |-> workspaceID, name |-> name, type |-> type,
    isSystem |-> isSystem, lastSaveError |-> "",
    payload |-> [NullPayloads EXCEPT ![type] = Payload(config, secrets)] ]

\* ApplyUpdate of a variant handler: non-sensitive fields are copied, a
\* sensitive field only when the incoming value is not empty.
ApplyUpdate(existing, incoming) ==
  [ isNil |-> FALSE,
    config |-> incoming.config,
    authMethod |-> incoming.authMethod,
    accountName |-> incoming.accountName,
    secrets |-> [f \in DOMAIN existing.secrets |->
                   IF f \in DOMAIN incoming.secrets /\ incoming.secrets[f] # Empty
                   THEN incoming.secrets[f]
                   ELSE existing.secrets[f]] ]

\* Storage.Update
Update(existing, incoming) ==
  [ existing EXCEPT
      !.name = incoming.name,
      !.type = incoming.type,
      !.isSystem = incoming.isSystem,
      !.payload = [t \in StorageTypes |->
                     IF t = incoming.type /\ ~existing.payload[t].isNil
                        /\ ~incoming.payload[t].isNil
                     THEN ApplyUpdate(existing.payload[t], incoming.payload[t])
                     ELSE existing.payload[t]] ]

\* One sensitive field through EncryptSensitiveData: an empty value and a
\* value already carrying the marker are left alone.
EncryptField(itemID, v) ==
  IF v # Empty /\ ~IsEncrypted(v) THEN Encrypt(itemID, v) ELSE v

\* Storage.EncryptSensitiveData
EncryptSensitiveData(storage) ==
  [ storage EXCEPT
      !.payload = [t \in StorageTypes |->
                     IF storage.payload[t].isNil THEN storage.payload[t]
                     ELSE [storage.payload[t] EXCEPT
                             !.secrets = [f \in DOMAIN storage.payload[t].secrets |->
                                            EncryptField(storage.id, storage.payload[t].secrets[f])]]] ]

\* Storage.Validate: TRUE when the record is valid.
Validate(storage) ==
  /\ storage.name # ""
  /\ ~storage.payload[storage.type].isNil
  /\ storage.type # "LOCAL" => storage.payload[storage.type].config # ""
  /\ \A f \in RequiredSensitiveFields(storage.type) :
       storage.payload[storage.type].secrets[f] # Empty

\* Storage.HideSensitiveData
HideSensitiveData(storage) ==
  [ storage EXCEPT
      !.payload = [t \in StorageTypes |->
                     IF storage.payload[t].isNil THEN storage.payload[t]
                     ELSE [storage.payload[t] EXCEPT
                             !.secrets = [f \in DOMAIN storage.payload[t].secrets |-> Empty]]] ]

\* Storage.HideAllData
HideAllData(storage) == [storage EXCEPT !.payload = NullPayloads]

\* ------------------------------------------------------- collaborators
\* WorkspaceService.CanUserManageDBs
CanUserManageDBs(workspaceID, user) ==
  \/ user.role = UserRoleAdmin
  \/ WorkspaceRole(workspaceID, user) \in {"OWNER", "ADMIN", "MEMBER"}

\* WorkspaceService.CanUserAccessWorkspace
CanUserAccessWorkspace(workspaceID, user) ==
  \/ user.role = UserRoleAdmin
  \/ WorkspaceRole(workspaceID, user) \in {"OWNER", "ADMIN", "MEMBER", "VIEWER"}

\* ------------------------------------------------------------ the state
VARIABLES
  storages,   \* the rows of the StorageRepository
  isCloud,    \* config.GetEnv().IsCloud
  prev,       \* during a call: the rows when the call began
  last,       \* the call being answered: its operation, arguments and outcome
  inflight,   \* the requests being served step by step
  writes,     \* the order in which those requests reached the repository
  form,       \* the storage page of the browser and its edit form
  oauth,      \* the window goToAuthUrl opened: the consent page, then the OAuth page
  smtp        \* one call of authenticateWithRetry and the connections it opened

vars == <<storages, isCloud, prev, last, inflight, writes, form, oauth, smtp>>

\* ----------------------------------------------------------- repository
\* StorageRepository.FindByID: the set holding the row, empty if not found.
FindByID(rows, id) == {s \in rows : s.id = id}

\* StorageRepository.FindByWorkspaceID: the rows of the workspace and every
\* system storage.
FindByWorkspaceID(rows, workspaceID) ==
  {s \in rows : s.workspaceID = workspaceID \/ s.isSystem}

\* StorageRepository.Save: a row without id gets a new one.
RepoSave(rows, storage, newID) ==
  IF storage.id = Nil
  THEN rows \cup {[storage EXCEPT !.id = newID]}
  ELSE {s \in rows : s.id # storage.id} \cup {storage}

\* StorageRepository.Delete
RepoDelete(rows, storage) == {s \in rows : s.id # storage.id}

FreeIds(rows, ids) == {i \in ids : FindByID(rows, i) = {}}

\* ------------------------------------------------------- StorageService
\* The outcome of a call: its error, the rows afterwards, the audit entries
\* it wrote and the storages it returned.
Outcome(err, rows, audit, ret) == [err |-> err, rows |-> rows, audit |-> audit, ret |-> ret]

Failed(err, rows) == Outcome(err, rows, 0, {})

\* SaveStorageUpdateFrom persisting the request itself instead of the loaded
\* row updated from it.
SaveStorageUpdateFrom_SavesIncoming(rows, workspaceID, storage, existingStorage) ==
  LET updated == EncryptSensitiveData(storage)
  IN  IF existingStorage.workspaceID # workspaceID
        THEN Failed(ErrStorageDoesNotBelongToWorkspace, rows)
      ELSE IF existingStorage.isSystem /\ ~storage.isSystem
        THEN Failed(ErrSystemStorageCannotBeMadePrivate, rows)
      ELSE IF ~Validate(updated)
        THEN Failed(ErrValidation, rows)
      ELSE Outcome(NoError, RepoSave(rows, updated, Nil), 1, {})

\* SaveStorageUpdateFrom without the check that a system storage stays one.
SaveStorageUpdateFrom_NoPrivateCheck(rows, workspaceID, storage, existingStorage) ==
  LET updated == EncryptSensitiveData(Update(existingStorage, storage))
  IN  IF existingStorage.workspaceID # workspaceID
        THEN Failed(ErrStorageDoesNotBelongToWorkspace, rows)
      ELSE IF ~Validate(updated)
        THEN Failed(ErrValidation, rows)
      ELSE Outcome(NoError, RepoSave(rows, updated, Nil), 1, {})

\* SaveStorageUpdateFrom saving the updated row before it validates it.
SaveStorageUpdateFrom_SavesBeforeValidate(rows, workspaceID, storage, existingStorage) ==
  LET updated == EncryptSensitiveData(Update(existingStorage, storage))
  IN  IF existingStorage.workspaceID # workspaceID
        THEN Failed(ErrStorageDoesNotBelongToWorkspace, rows)
      ELSE IF existingStorage.isSystem /\ ~storage.isSystem
        THEN Failed(ErrSystemStorageCannotBeMadePrivate, rows)
      ELSE IF ~Validate(updated)
        THEN Failed(ErrValidation, RepoSave(rows, updated, Nil))
      ELSE Outcome(NoError, RepoSave(rows, updated, Nil), 1, {})

\* SaveStorageUpdateFrom without the check that the row belongs to the
\* workspace of the request.
SaveStorageUpdateFrom_NoWorkspaceCheck(rows, workspaceID, storage, existingStorage) ==
  LET updated == EncryptSensitiveData(Update(existingStorage, storage))
  IN  IF existingStorage.isSystem /\ ~storage.isSystem
        THEN Failed(ErrSystemStorageCannotBeMadePrivate, rows)
      ELSE IF ~Validate(updated)
        THEN Failed(ErrValidation, rows)
      ELSE Outcome(NoError, RepoSave(rows, updated, Nil), 1, {})

\* The update branch of SaveStorage after FindByID (service.go:85-112):
\* existingStorage is the copy FindByID returned and rows are the rows of the
\* repository when Save is reached, which another request may have written
\* since the copy was loaded.
SaveStorageUpdateFrom(rows, workspaceID, storage, existingStorage) ==
  LET updated == EncryptSensitiveData(Update(existingStorage, storage))
  IN  IF existingStorage.workspaceID # workspaceID
        THEN Failed(ErrStorageDoesNotBelongToWorkspace, rows)
      ELSE IF existingStorage.isSystem /\ ~storage.isSystem
        THEN Failed(ErrSystemStorageCannotBeMadePrivate, rows)
      ELSE IF ~Validate(updated)
        THEN Failed(ErrValidation, rows)
      ELSE Outcome(NoError, RepoSave(rows, updated, Nil), 1, {})

\* The update branch of SaveStorage served with no other request between
\* FindByID and Save.
SaveStorageUpdate(rows, workspaceID, storage) ==
  IF FindByID(rows, storage.id) = {} THEN Failed(ErrRecordNotFound, rows)
  ELSE SaveStorageUpdateFrom(rows, workspaceID, storage,
                             CHOOSE s \in FindByID(rows, storage.id) : TRUE)

\* SaveStorageCreate writing an audit entry for a request it refuses.
SaveStorageCreate_AuditsFailure(rows, workspaceID, storage, newID) ==
  LET created == EncryptSensitiveData([storage EXCEPT !.workspaceID = workspaceID])
  IN  IF ~Validate(created)
        THEN Outcome(ErrValidation, rows, 1, {})
      ELSE Outcome(NoError, RepoSave(rows, created, newID), 1, {})

\* SaveStorageCreate without the call of EncryptSensitiveData.
SaveStorageCreate_NoEncrypt(rows, workspaceID, storage, newID) ==
  LET created == [storage EXCEPT !.workspaceID = workspaceID]
  IN  IF ~Validate(created)
        THEN Failed(ErrValidation, rows)
      ELSE Outcome(NoError, RepoSave(rows, created, newID), 1, {})

SaveStorageCreate(rows, workspaceID, storage, newID) ==
  LET created == EncryptSensitiveData([storage EXCEPT !.workspaceID = workspaceID])
  IN  IF ~Validate(created)
        THEN Failed(ErrValidation, rows)
      ELSE Outcome(NoError, RepoSave(rows, created, newID), 1, {})

\* SaveStorage without the check of the management rights.
SaveStorage_NoManageCheck(rows, cloud, user, workspaceID, storage, newID) ==
  IF cloud /\ storage.type = "LOCAL" /\ user.role # UserRoleAdmin
    THEN Failed(ErrLocalStorageNotAllowedInCloudMode, rows)
  ELSE IF storage.isSystem /\ user.role # UserRoleAdmin
    THEN Failed(ErrInsufficientPermissionsToManageStorage, rows)
  ELSE IF storage.id # Nil
    THEN SaveStorageUpdate(rows, workspaceID, storage)
  ELSE SaveStorageCreate(rows, workspaceID, storage, newID)

\* SaveStorage without the check of cloud mode.
SaveStorage_NoCloudCheck(rows, cloud, user, workspaceID, storage, newID) ==
  IF ~CanUserManageDBs(workspaceID, user)
    THEN Failed(ErrInsufficientPermissionsToManageStorage, rows)
  ELSE IF storage.isSystem /\ user.role # UserRoleAdmin
    THEN Failed(ErrInsufficientPermissionsToManageStorage, rows)
  ELSE IF storage.id # Nil
    THEN SaveStorageUpdate(rows, workspaceID, storage)
  ELSE SaveStorageCreate(rows, workspaceID, storage, newID)

\* StorageService.SaveStorage
SaveStorage(rows, cloud, user, workspaceID, storage, newID) ==
  IF ~CanUserManageDBs(workspaceID, user)
    THEN Failed(ErrInsufficientPermissionsToManageStorage, rows)
  ELSE IF cloud /\ storage.type = "LOCAL" /\ user.role # UserRoleAdmin
    THEN Failed(ErrLocalStorageNotAllowedInCloudMode, rows)
  ELSE IF storage.isSystem /\ user.role # UserRoleAdmin
    THEN Failed(ErrInsufficientPermissionsToManageStorage, rows)
  ELSE IF storage.id # Nil
    THEN SaveStorageUpdate(rows, workspaceID, storage)
  ELSE SaveStorageCreate(rows, workspaceID, storage, newID)

\* DeleteStorageFrom without the admin check for system storages.
DeleteStorageFrom_NoAdminCheck(rows, user, storage, attachedDatabasesIDs) ==
  IF ~CanUserManageDBs(storage.workspaceID, user)
    THEN Failed(ErrInsufficientPermissionsToManageStorage, rows)
  ELSE IF Cardinality(attachedDatabasesIDs) > 0
    THEN Failed(ErrStorageHasAttachedDatabases, rows)
  ELSE Outcome(NoError, RepoDelete(rows, storage), 1, {})

\* DeleteStorageFrom without the check of the attached databases.
DeleteStorageFrom_NoAttachmentCheck(rows, user, storage, attachedDatabasesIDs) ==
  IF ~CanUserManageDBs(storage.workspaceID, user)
    THEN Failed(ErrInsufficientPermissionsToManageStorage, rows)
  ELSE IF storage.isSystem /\ user.role # UserRoleAdmin
    THEN Failed(ErrInsufficientPermissionsToManageStorage, rows)
  ELSE Outcome(NoError, RepoDelete(rows, storage), 1, {})

\* DeleteStorage after FindByID (service.go:148-180): storage is the copy
\* FindByID returned, attachedDatabasesIDs is what the attachment counter
\* answers for it, and rows are the rows when Delete is reached.
DeleteStorageFrom(rows, user, storage, attachedDatabasesIDs) ==
  IF ~CanUserManageDBs(storage.workspaceID, user)
    THEN Failed(ErrInsufficientPermissionsToManageStorage, rows)
  ELSE IF storage.isSystem /\ user.role # UserRoleAdmin
    THEN Failed(ErrInsufficientPermissionsToManageStorage, rows)
  ELSE IF Cardinality(attachedDatabasesIDs) > 0
    THEN Failed(ErrStorageHasAttachedDatabases, rows)
  ELSE Outcome(NoError, RepoDelete(rows, storage), 1, {})

\* StorageService.DeleteStorage served with no other request between
\* FindByID and Delete.
DeleteStorage(rows, user, storageID, attachedDatabasesIDs) ==
  IF FindByID(rows, storageID) = {} THEN Failed(ErrRecordNotFound, rows)
  ELSE DeleteStorageFrom(rows, user, CHOOSE s \in FindByID(rows, storageID) : TRUE,
                         attachedDatabasesIDs)

\* The redaction without HideAllData.
Redact_SecretsOnly(storage, user) == HideSensitiveData(storage)

\* What GetStorage and GetStorages do to a loaded row before returning it.
Redact(storage, user) ==
  IF storage.isSystem /\ user.role # UserRoleAdmin
  THEN HideAllData(HideSensitiveData(storage))
  ELSE HideSensitiveData(storage)

\* GetStorage without the check of the view rights.
GetStorage_NoViewCheck(rows, user, id) ==
  IF FindByID(rows, id) = {} THEN Failed(ErrRecordNotFound, rows)
  ELSE
    LET storage == CHOOSE s \in FindByID(rows, id) : TRUE
    IN  Outcome(NoError, rows, 0, {Redact(storage, user)})

\* StorageService.GetStorage
GetStorage(rows, user, id) ==
  IF FindByID(rows, id) = {} THEN Failed(ErrRecordNotFound, rows)
  ELSE
    LET storage == CHOOSE s \in FindByID(rows, id) : TRUE
    IN  IF ~storage.isSystem /\ ~CanUserAccessWorkspace(storage.workspaceID, user)
          THEN Failed(ErrInsufficientPermissionsToViewStorage, rows)
        ELSE Outcome(NoError, rows, 0, {Redact(storage, user)})

\* GetStorages hiding the payloads of system storages only, without
\* HideSensitiveData.
GetStorages_NoHide(rows, user, workspaceID) ==
  IF ~CanUserAccessWorkspace(workspaceID, user)
    THEN Failed(ErrInsufficientPermissionsToViewStorages, rows)
  ELSE Outcome(NoError, rows, 0,
               {IF s.isSystem /\ user.role # UserRoleAdmin THEN HideAllData(s) ELSE s :
                  s \in FindByWorkspaceID(rows, workspaceID)})

\* GetStorages listing every row instead of the rows FindByWorkspaceID
\* answers.
GetStorages_AllRows(rows, user, workspaceID) ==
  IF ~CanUserAccessWorkspace(workspaceID, user)
    THEN Failed(ErrInsufficientPermissionsToViewStorages, rows)
  ELSE Outcome(NoError, rows, 0, {Redact(s, user) : s \in rows})

\* StorageService.GetStorages
GetStorages(rows, user, workspaceID) ==
  IF ~CanUserAccessWorkspace(workspaceID, user)
    THEN Failed(ErrInsufficientPermissionsToViewStorages, rows)
  ELSE Outcome(NoError, rows, 0,
               {Redact(s, user) : s \in FindByWorkspaceID(rows, workspaceID)})

\* TestStorageConnection after FindByID (service.go:248-269): storage is the
\* copy FindByID returned, probe is what storage.TestConnection returns and
\* rows are the rows when Save is reached. When the probe fails the error is
\* put in the copy only; when it succeeds the whole copy is saved.
TestStorageConnectionFrom(rows, user, storage, probe) ==
  IF ~CanUserAccessWorkspace(storage.workspaceID, user)
    THEN Failed(ErrInsufficientPermissionsToTestStorage, rows)
  ELSE IF probe # NoError
    THEN Failed(probe, rows)
  ELSE Outcome(NoError, RepoSave(rows, [storage EXCEPT !.lastSaveError = ""], Nil), 0, {})

\* StorageService.TestStorageConnection served with no other request
\* between FindByID and Save.
TestStorageConnection(rows, user, storageID, probe) ==
  IF FindByID(rows, storageID) = {} THEN Failed(ErrRecordNotFound, rows)
  ELSE TestStorageConnectionFrom(rows, user, CHOOSE s \in FindByID(rows, storageID) : TRUE,
                                 probe)

\* TestStorageConnectionDirect saving the merged row when the probe
\* succeeds.
TestStorageConnectionDirect_SavesMerged(rows, cloud, user, storage, probe) ==
  IF cloud /\ storage.type = "LOCAL" /\ user.role # UserRoleAdmin
    THEN Failed(ErrLocalStorageNotAllowedInCloudMode, rows)
  ELSE IF storage.id # Nil
    THEN IF FindByID(rows, storage.id) = {} THEN Failed(ErrRecordNotFound, rows)
         ELSE LET existingStorage == CHOOSE s \in FindByID(rows, storage.id) : TRUE
              IN  IF existingStorage.workspaceID # storage.workspaceID
                    THEN Failed(ErrStorageDoesNotBelongToWorkspace, rows)
                  ELSE IF ~Validate(Update(existingStorage, storage))
                    THEN Failed(ErrValidation, rows)
                  ELSE IF probe # NoError THEN Outcome(probe, rows, 0, {})
                  ELSE Outcome(probe, RepoSave(rows, Update(existingStorage, storage), Nil), 0, {})
  ELSE Outcome(probe, rows, 0, {})

\* StorageService.TestStorageConnectionDirect
TestStorageConnectionDirect(rows, cloud, user, storage, probe) ==
  IF cloud /\ storage.type = "LOCAL" /\ user.role # UserRoleAdmin
    THEN Failed(ErrLocalStorageNotAllowedInCloudMode, rows)
  ELSE IF storage.id # Nil
    THEN IF FindByID(rows, storage.id) = {} THEN Failed(ErrRecordNotFound, rows)
         ELSE LET existingStorage == CHOOSE s \in FindByID(rows, storage.id) : TRUE
              IN  IF existingStorage.workspaceID # storage.workspaceID
                    THEN Failed(ErrStorageDoesNotBelongToWorkspace, rows)
                  ELSE IF ~Validate(Update(existingStorage, storage))
                    THEN Failed(ErrValidation, rows)
                  ELSE Outcome(probe, rows, 0, {})
  ELSE Outcome(probe, rows, 0, {})

\* StorageController.TestStorageConnectionDirect: the request needs view
\* rights on the workspace it names, then the service is called.
ControllerTestStorageConnectionDirect(rows, cloud, user, request, probe) ==
  IF ~CanUserAccessWorkspace(request.workspaceID, user)
    THEN Failed(ErrInsufficientPermissionsToTestStorage, rows)
  ELSE TestStorageConnectionDirect(rows, cloud, user, request, probe)

\* TransferStorageToWorkspaceFrom accepting the call when the named database
\* is one of the attached ones.
TransferStorageToWorkspaceFrom_AnyMatch(rows, user, existingStorage, targetWorkspaceID, transferingWithDbID, attachedDatabasesIDs) ==
  IF existingStorage.isSystem
    THEN Failed(ErrSystemStorageCannotBeTransferred, rows)
  ELSE IF ~CanUserManageDBs(existingStorage.workspaceID, user)
    THEN Failed(ErrInsufficientPermissionsInSourceWorkspace, rows)
  ELSE IF ~CanUserManageDBs(targetWorkspaceID, user)
    THEN Failed(ErrInsufficientPermissionsInTargetWorkspace, rows)
  ELSE IF transferingWithDbID # Nil /\ attachedDatabasesIDs # {}
          /\ transferingWithDbID \notin attachedDatabasesIDs
    THEN Failed(ErrStorageHasOtherAttachedDatabasesCannotTransfer, rows)
  ELSE IF transferingWithDbID = Nil /\ Cardinality(attachedDatabasesIDs) > 0
    THEN Failed(ErrStorageHasAttachedDatabasesCannotTransfer, rows)
  ELSE Outcome(NoError,
               RepoSave(rows, [existingStorage EXCEPT !.workspaceID = targetWorkspaceID], Nil),
               1, {})

\* TransferStorageToWorkspaceFrom without the check of the target workspace.
TransferStorageToWorkspaceFrom_NoTargetCheck(rows, user, existingStorage, targetWorkspaceID, transferingWithDbID, attachedDatabasesIDs) ==
  IF existingStorage.isSystem
    THEN Failed(ErrSystemStorageCannotBeTransferred, rows)
  ELSE IF ~CanUserManageDBs(existingStorage.workspaceID, user)
    THEN Failed(ErrInsufficientPermissionsInSourceWorkspace, rows)
  ELSE IF transferingWithDbID # Nil
          /\ \E dbID \in attachedDatabasesIDs : dbID # transferingWithDbID
    THEN Failed(ErrStorageHasOtherAttachedDatabasesCannotTransfer, rows)
  ELSE IF transferingWithDbID = Nil /\ Cardinality(attachedDatabasesIDs) > 0
    THEN Failed(ErrStorageHasAttachedDatabasesCannotTransfer, rows)
  ELSE Outcome(NoError,
               RepoSave(rows, [existingStorage EXCEPT !.workspaceID = targetWorkspaceID], Nil),
               1, {})

\* TransferStorageToWorkspaceFrom without the check for system storages.
TransferStorageToWorkspaceFrom_NoSystemCheck(rows, user, existingStorage, targetWorkspaceID, transferingWithDbID, attachedDatabasesIDs) ==
  IF ~CanUserManageDBs(existingStorage.workspaceID, user)
    THEN Failed(ErrInsufficientPermissionsInSourceWorkspace, rows)
  ELSE IF ~CanUserManageDBs(targetWorkspaceID, user)
    THEN Failed(ErrInsufficientPermissionsInTargetWorkspace, rows)
  ELSE IF transferingWithDbID # Nil
          /\ \E dbID \in attachedDatabasesIDs : dbID # transferingWithDbID
    THEN Failed(ErrStorageHasOtherAttachedDatabasesCannotTransfer, rows)
  ELSE IF transferingWithDbID = Nil /\ Cardinality(attachedDatabasesIDs) > 0
    THEN Failed(ErrStorageHasAttachedDatabasesCannotTransfer, rows)
  ELSE Outcome(NoError,
               RepoSave(rows, [existingStorage EXCEPT !.workspaceID = targetWorkspaceID], Nil),
               1, {})

\* TransferStorageToWorkspace after FindByID (service.go:324-378):
\* existingStorage is the copy FindByID returned, transferingWithDbID is Nil
\* when the caller gave none, attachedDatabasesIDs is what the attachment
\* counter answers and rows are the rows when Save is reached.
TransferStorageToWorkspaceFrom(rows, user, existingStorage, targetWorkspaceID, transferingWithDbID, attachedDatabasesIDs) ==
  IF existingStorage.isSystem
    THEN Failed(ErrSystemStorageCannotBeTransferred, rows)
  ELSE IF ~CanUserManageDBs(existingStorage.workspaceID, user)
    THEN Failed(ErrInsufficientPermissionsInSourceWorkspace, rows)
  ELSE IF ~CanUserManageDBs(targetWorkspaceID, user)
    THEN Failed(ErrInsufficientPermissionsInTargetWorkspace, rows)
  ELSE IF transferingWithDbID # Nil
          /\ \E dbID \in attachedDatabasesIDs : dbID # transferingWithDbID
    THEN Failed(ErrStorageHasOtherAttachedDatabasesCannotTransfer, rows)
  ELSE IF transferingWithDbID = Nil /\ Cardinality(attachedDatabasesIDs) > 0
    THEN Failed(ErrStorageHasAttachedDatabasesCannotTransfer, rows)
  ELSE Outcome(NoError,
               RepoSave(rows, [existingStorage EXCEPT !.workspaceID = targetWorkspaceID], Nil),
               1, {})

\* StorageService.TransferStorageToWorkspace served with no other request
\* between FindByID and Save.
TransferStorageToWorkspace(rows, user, storageID, targetWorkspaceID, transferingWithDbID, attachedDatabasesIDs) ==
  IF FindByID(rows, storageID) = {} THEN Failed(ErrRecordNotFound, rows)
  ELSE TransferStorageToWorkspaceFrom(rows, user,
                                      CHOOSE s \in FindByID(rows, storageID) : TRUE,
                                      targetWorkspaceID, transferingWithDbID,
                                      attachedDatabasesIDs)

\* The loop passing over no storage.
Skipped_Never(workspaceID, storage) == FALSE

\* The loop of OnBeforeWorkspaceDeletion passes over the system storages of
\* other workspaces (service.go:35-38).
Skipped(workspaceID, storage) == storage.isSystem /\ storage.workspaceID # workspaceID

\* The storages still before the loop, from the one it stops at.
RECURSIVE Pending(_, _)
Pending(workspaceID, list) ==
  IF list = << >> THEN list
  ELSE IF Skipped(workspaceID, Head(list)) THEN Pending(workspaceID, Tail(list))
  ELSE list

\* The loop stops at a system storage of the workspace and returns the
\* error (service.go:40-44).
Blocked(workspaceID, list) ==
  list # << >> /\ Head(list).isSystem /\ Head(list).workspaceID = workspaceID

\* The loop has no storage left to delete: it returns.
Returns(workspaceID, list) == list = << >> \/ Blocked(workspaceID, list)

\* What OnBeforeWorkspaceDeletion returns when the loop returns.
ReturnedError(workspaceID, list) ==
  IF Blocked(workspaceID, list) THEN ErrSystemStorageBlocksWorkspaceDeletion ELSE NoError

\* The orders in which the repository may list a set of rows.
Listings(set) ==
  {list \in [1..Cardinality(set) -> set] : \A s \in set : \E i \in DOMAIN list : list[i] = s}

\* ---------------------------------------------------------------- inputs
\* What a client may send in a sensitive field: nothing, a new secret, or a
\* value carrying the marker (the response to a save echoes the request
\* after encryption).
IncomingSecrets == {Empty, <<"k1">>, <<"k2">>, <<EncPrefix, "k1">>}

\* A domain of requests: the storage types, the non-sensitive
\* configurations, the names, the ids the repository may assign, the
\* workspaces addressed, the values of a sensitive field, the values of
\* isSystem, the actors and the databases the attachment counter may name.
UsersNamed(ids) == {u \in Users : u.id \in ids}

MainDomain ==
  [ types |-> {"NAS"}, configs |-> {"c1", "c2"}, names |-> {"", "n1"},
    ids |-> StorageIds, workspaces |-> Workspaces,
    secrets |-> {Empty, <<"k1">>}, systems |-> BOOLEAN, users |-> Users,
    databases |-> Databases ]

SecretsDomain ==
  [ types |-> StorageTypes, configs |-> {"c1", "c2"}, names |-> {"n1"},
    ids |-> {1}, workspaces |-> {"W1"},
    secrets |-> IncomingSecrets, systems |-> BOOLEAN,
    users |-> UsersNamed({"root", "alice", "bob"}), databases |-> {} ]

\* The requests of the connection tests: Local and NAS storages of both
\* workspaces.
ProbeDomain ==
  [ types |-> {"LOCAL", "NAS"}, configs |-> {"c1", "c2"}, names |-> {"n1"},
    ids |-> {1}, workspaces |-> Workspaces,
    secrets |-> {Empty, <<"k1">>}, systems |-> BOOLEAN, users |-> Users,
    databases |-> {} ]

\* The requests of two clients editing one NAS storage of W1.
ConcurrentDomain ==
  [ types |-> {"NAS"}, configs |-> {"c1", "c2"}, names |-> {"n1"},
    ids |-> {1}, workspaces |-> {"W1"},
    secrets |-> {Empty, <<"k1">>, <<"k2">>}, systems |-> {FALSE},
    users |-> UsersNamed({"root", "alice", "carol"}), databases |-> {} ]

\* Every operation of the service on one NAS storage, for the audit log.
AuditDomain ==
  [ types |-> {"NAS"}, configs |-> {"c1"}, names |-> {"", "n1"},
    ids |-> {1}, workspaces |-> Workspaces,
    secrets |-> {Empty, <<"k1">>}, systems |-> BOOLEAN,
    users |-> UsersNamed({"root", "alice", "bob"}), databases |-> {1} ]

\* The requests served while another request waits between its load and its
\* write: those addressed to one NAS storage by root and alice.
RaceDomain ==
  [ types |-> {"NAS"}, configs |-> {"c1", "c2"}, names |-> {"n1"},
    ids |-> {1}, workspaces |-> Workspaces,
    secrets |-> {Empty, <<"k1">>}, systems |-> BOOLEAN,
    users |-> UsersNamed({"root", "alice"}), databases |-> {} ]

ConfigsOf(type, D) == IF type = "LOCAL" THEN {""} ELSE D.configs

Incoming(D, workspaceID) ==
  UNION { { MakeStorage(id, workspaceID, name, type, isSystem, config, secrets) :
              id \in {Nil} \cup D.ids, name \in D.names, isSystem \in D.systems,
              config \in ConfigsOf(type, D),
              secrets \in [SensitiveFields(type) -> D.secrets] } :
          type \in D.types }

Min(S) == CHOOSE x \in S : \A y \in S : x <= y

\* ---------------------------------------------------------------- actions
NoSecrets == [f \in {} |-> Empty]

Root == CHOOSE u \in Users : u.id = "root"

Record(op, user, workspaceID, id, isSystem, secrets, attached, single, out) ==
  [ op |-> op, user |-> user, workspaceID |-> workspaceID, id |-> id,
    isSystem |-> isSystem, secrets |-> secrets,
    attached |-> attached, single |-> single,
    type |-> "", probe |-> NoError, config |-> "", loaded |-> {},
    err |-> out.err, audit |-> out.audit, ret |-> out.ret ]

\* A record with the type of the incoming storage and the answer of the
\* connection probe.
Typed(record, type, probe) == [record EXCEPT !.type = type, !.probe = probe]

\* A record with the non-sensitive configuration of the incoming storage.
WithConfig(record, config) == [record EXCEPT !.config = config]

\* A record with the rows the call loaded from the repository.
Loaded(record, rows) == [record EXCEPT !.loaded = rows]

\* What storage.TestConnection may return.
Probes == {NoError, ErrConnectionFailed}

\* No call is being answered.
NoCall == Record("none", Root, NoWorkspace, Nil, FALSE, NoSecrets, {}, Nil, Failed(NoError, {}))

\* The two requests that may be between their load and their write.
Slots == {1, 2}

\* A slot serving no request. audit counts the audit entries the request
\* wrote.
Idle ==
  [ phase |-> "idle", user |-> Root, workspaceID |-> NoWorkspace,
    storage |-> MakeStorage(Nil, NoWorkspace, "", "LOCAL", FALSE, "", NoSecrets),
    existing |-> MakeStorage(Nil, NoWorkspace, "", "LOCAL", FALSE, "", NoSecrets),
    loadedAt |-> 0, err |-> NoError, audit |-> 0,
    single |-> Nil, list |-> << >>, listed |-> {}, removed |-> {} ]

\* ------------------------------------------------- the storage edit form
\* The payload setStorageType gives the chosen type: every field empty, and
\* the authMethod of the Azure payload ACCOUNT_KEY.
BlankPayload(type) ==
  [ Payload("", [f \in SensitiveFields(type) |-> Empty])
      EXCEPT !.authMethod = IF type = "AZURE_BLOB" THEN "ACCOUNT_KEY" ELSE "" ]

\* EditStorageComponent.setStorageType: seven payloads are set to undefined
\* (nasStorage is not among them), the payload of the chosen type is set to
\* its blank value and the type is written.
setStorageType(storage, type) ==
  [ storage EXCEPT
      !.type = type,
      !.payload = [t \in StorageTypes |->
                     IF t = type THEN BlankPayload(t)
                     ELSE IF t = "NAS" THEN storage.payload[t]
                     ELSE NullPayload] ]

\* A falsy field of a payload that may be undefined (storage.x?.field).
Filled(payload, f) == ~payload.isNil /\ payload.secrets[f] # Empty

\* EditStorageComponent.isAllDataFilled; config stands for the non-sensitive
\* fields the form requires (the containerName of the Azure payload).
isAllDataFilled(storage) ==
  LET p == storage.payload[storage.type]
      configFilled == ~p.isNil /\ p.config # ""
  IN  IF storage.name = "" THEN FALSE
      ELSE IF storage.type = "LOCAL" THEN TRUE
      ELSE IF storage.type = "S3"
        THEN IF storage.id # Nil THEN configFilled
             ELSE configFilled /\ Filled(p, "s3AccessKey") /\ Filled(p, "s3SecretKey")
      ELSE IF storage.type = "GOOGLE_DRIVE"
        THEN IF storage.id # Nil THEN configFilled
             ELSE configFilled /\ Filled(p, "clientSecret") /\ Filled(p, "tokenJson")
      ELSE IF storage.type = "NAS"
        THEN IF storage.id # Nil THEN configFilled
             ELSE configFilled /\ Filled(p, "password")
      ELSE IF storage.type = "AZURE_BLOB"
        THEN IF storage.id # Nil THEN configFilled
             ELSE IF ~p.isNil /\ p.authMethod = "CONNECTION_STRING"
               THEN configFilled /\ Filled(p, "connectionString")
             ELSE IF ~p.isNil /\ p.authMethod = "ACCOUNT_KEY"
               THEN configFilled /\ p.accountName # "" /\ Filled(p, "accountKey")
             ELSE FALSE
      ELSE IF storage.type = "FTP"
        THEN IF storage.id # Nil THEN configFilled
             ELSE configFilled /\ Filled(p, "password")
      ELSE IF storage.type = "SFTP"
        THEN IF storage.id # Nil THEN configFilled
             ELSE configFilled /\ (Filled(p, "password") \/ Filled(p, "privateKey"))
      ELSE IF storage.type = "RCLONE"
        THEN IF storage.id # Nil THEN TRUE
             ELSE Filled(p, "configContent")
      ELSE FALSE

\* storageTypeOptions: Local is not offered to a non-admin in cloud mode.
storageTypeOptions(cloud, user) ==
  {t \in StorageTypes : ~(cloud /\ t = "LOCAL" /\ user.role # UserRoleAdmin)}

\* The storage of a form that is not mounted.
NoStorage == MakeStorage(Nil, NoWorkspace, "", "LOCAL", FALSE, "", NoSecrets)

\* The storage a new form starts from (the useEffect of the form).
NewStorage(workspaceId) == MakeStorage(Nil, workspaceId, "", "LOCAL", FALSE, "", NoSecrets)

\* The browser shows neither the storage page nor the form. view is "none",
\* "page" (StorageComponent), "create" (the form in the dialog of a backup
\* configuration) or "oauth" (the form in OauthStorageComponent). The fields
\* from hasStorage to submitted are the state of StorageComponent:
\* hasStorage tells that storage is defined and loaded is its value, loads
\* counts the getStorage requests not answered yet, isSavingName is its
\* isSaving and submitted the storage saveName sent. The fields from storage
\* to connectionError are the state of EditStorageComponent; lastTest and
\* changedSinceTest record the answer of the most recent connection test and
\* whether the type or a payload field was changed since that test was sent.
NoPage ==
  [ view |-> "none", user |-> Root, isCanManageStorages |-> FALSE,
    hasStorage |-> FALSE, loaded |-> NoStorage, loads |-> 0,
    isEditName |-> FALSE, isEditSettings |-> FALSE,
    editStorage |-> NoStorage, isNameUnsaved |-> FALSE,
    isSavingName |-> FALSE, submitted |-> NoStorage,
    storage |-> NoStorage, isUnsaved |-> FALSE, isSaving |-> FALSE,
    isTestingConnection |-> FALSE, isTestConnectionSuccess |-> FALSE,
    connectionError |-> FALSE,
    lastTest |-> "none", changedSinceTest |-> FALSE ]

\* StorageComponent: what the expression
\* !storage.isSystem || (admin && <header/>) renders once storage is defined.
SettingsHeaderRendered(f) ==
  /\ f.view = "page" /\ f.hasStorage
  /\ IF ~f.loaded.isSystem THEN FALSE
     ELSE f.user.role = UserRoleAdmin

\* The pen inside the header.
SettingsPenRendered(f) ==
  /\ SettingsHeaderRendered(f)
  /\ ~f.isEditSettings /\ f.isCanManageStorages

\* The pen next to the name of the storage.
NamePenRendered(f) ==
  /\ f.view = "page" /\ f.hasStorage
  /\ ~f.isEditName
  /\ ~f.loaded.isSystem \/ f.user.role = UserRoleAdmin
  /\ f.isCanManageStorages

\* EditStorageComponent is mounted by the page, by the dialog or by the
\* OAuth page.
EditorMounted(f) ==
  \/ f.view \in {"create", "oauth"}
  \/ f.view = "page" /\ f.hasStorage /\ f.isEditSettings /\ f.isCanManageStorages

\* The state of EditStorageComponent is dropped when it is unmounted.
Unmount(f) ==
  [ f EXCEPT !.storage = NoStorage, !.isUnsaved = FALSE, !.isSaving = FALSE,
             !.isTestingConnection = FALSE, !.isTestConnectionSuccess = FALSE,
             !.connectionError = FALSE,
             !.lastTest = "none", !.changedSinceTest = FALSE ]

\* EditStorageComponent is mounted on editingStorage: its initial state and
\* its useEffect.
Mount(f, editingStorage) ==
  [ Unmount(f) EXCEPT !.storage = editingStorage, !.isUnsaved = TRUE ]

\* setStorage of StorageComponent and the render that follows: a form that
\* stays mounted gets the new editingStorage through its useEffect and keeps
\* the rest of its state; a form that was not mounted is mounted when
\* isEditSettings is still set.
ShowStorage(f, storage) ==
  LET g == [f EXCEPT !.hasStorage = TRUE, !.loaded = storage]
  IN  IF ~EditorMounted(g) THEN Unmount(g)
      ELSE IF EditorMounted(f)
        THEN [g EXCEPT !.storage = storage, !.isUnsaved = TRUE,
                       !.changedSinceTest =
                         \/ @
                         \/ storage.type # f.storage.type
                         \/ storage.payload # f.storage.payload]
      ELSE Mount(g, storage)

\* loadSettings: storage and editStorage are set to undefined, which
\* unmounts the form, and getStorage is sent.
loadSettings(f) ==
  Unmount([f EXCEPT !.hasStorage = FALSE, !.loaded = NoStorage,
                    !.editStorage = NoStorage, !.loads = @ + 1])

\* The user prop of a form that was given none.
NoUser == [id |-> "", role |-> ""]

\* The two versions of OauthStorageComponent: the one of pages, which gives
\* the form no user, and the one that asks getCurrentUser.
OauthVersions == {"pages", "getCurrentUser"}

\* No window was opened by goToAuthUrl. phase is "none", "consent" (the
\* consent page of Google), "exchanging" and "reading" (OauthStorageComponent
\* with its spinner, waiting for fetch and for response.json), "ready"
\* (storage is set and the user is awaited), "failed" (the alert was shown
\* and the timer runs), "stuck" (the page was opened without a code),
\* "crashed" (the render of the form threw) or "mounted" (the form is
\* mounted and two windows are open: behind is the one that is not in
\* front). storage is the storage goToAuthUrl put in the state parameter,
\* user the user of the session, asked the state of getCurrentUser ("none",
\* "asked", "set"), ok tells response.ok and beside counts the steps taken
\* in the window in front since the page was opened or the form mounted.
NoWindow ==
  [ phase |-> "none", version |-> "pages", storage |-> NoStorage, user |-> NoUser,
    asked |-> "none", ok |-> FALSE, beside |-> 0, behind |-> NoPage ]

\* The two buttons of the form.
TestOffered(f) == EditorMounted(f) /\ f.isUnsaved /\ ~f.isTestConnectionSuccess

TestEnabled(f) == TestOffered(f) /\ ~f.isTestingConnection /\ isAllDataFilled(f.storage)

SaveOffered(f) == EditorMounted(f) /\ f.isUnsaved /\ f.isTestConnectionSuccess

SaveEnabled(f) == SaveOffered(f) /\ ~f.isSaving /\ isAllDataFilled(f.storage)

\* ------------------------------------------------ authenticateWithRetry
\* No call of authenticateWithRetry is running. pc is the position in the
\* function; conns are the connections dialled by the call, in order, each
\* "open", "quit" (its cleanup was called) or "closed" (createClient closed
\* it itself); attempts are the mechanisms given to client.Auth; err is the
\* error returned.
NoDial ==
  [ pc |-> "idle", sender |-> "EmailNotifier", tls |-> "implicit",
    isAuthRequired |-> FALSE, conns |-> << >>, attempts |-> << >>,
    err |-> NoError ]

ErrConnect == "failed to connect to SMTP server"
ErrCreateClient == "failed to create SMTP client"
ErrHello == "SMTP hello failed"
ErrStartTLS == "STARTTLS failed"
ErrAuthentication == "SMTP authentication failed"

\* What createImplicitTLSClient and createStartTLSClient may return.
CreateOutcomes(tls) ==
  IF tls = "implicit" THEN {NoError, ErrConnect, ErrCreateClient}
  ELSE {NoError, ErrConnect, ErrCreateClient, ErrHello, ErrStartTLS}

\* cleanup(): client.Quit() on the connection most recently created.
cleanup(s) == [s EXCEPT !.conns[Len(s.conns)] = "quit"]

\* createClient() and the lines that follow it: the first client is
\* returned at once when no authentication is required.
createClient(s, outcome) ==
  IF outcome = ErrConnect
    THEN [s EXCEPT !.pc = "returned", !.err = outcome]
  ELSE IF outcome # NoError
    THEN [s EXCEPT !.pc = "returned", !.err = outcome, !.conns = Append(@, "closed")]
  ELSE [s EXCEPT !.conns = Append(@, "open"),
                 !.pc = IF s.pc = "create2" THEN "login"
                        ELSE IF ~s.isAuthRequired THEN "returned"
                        ELSE "plain"]

\* client.Auth(plainAuth): on failure cleanup() and the second createClient.
plainAuth(s, ok) ==
  LET tried == [s EXCEPT !.attempts = Append(@, "PLAIN")]
  IN  IF ok THEN [tried EXCEPT !.pc = "returned"]
      ELSE [cleanup(tried) EXCEPT !.pc = "create2"]

\* client.Auth(loginAuth) leaving the connection as it is when it fails.
loginAuth_NoCleanup(s, ok) ==
  LET tried == [s EXCEPT !.attempts = Append(@, "LOGIN")]
  IN  IF ok THEN [tried EXCEPT !.pc = "returned"]
      ELSE [tried EXCEPT !.pc = "returned", !.err = ErrAuthentication]

\* client.Auth(loginAuth): on failure cleanup() and the error.
loginAuth(s, ok) ==
  LET tried == [s EXCEPT !.attempts = Append(@, "LOGIN")]
  IN  IF ok THEN [tried EXCEPT !.pc = "returned"]
      ELSE [cleanup(tried) EXCEPT !.pc = "returned", !.err = ErrAuthentication]

Init ==
  /\ storages = {}
  /\ isCloud \in BOOLEAN
  /\ prev = {}
  /\ last = NoCall
  /\ inflight = [slot \in Slots |-> Idle]
  /\ writes = << >>
  /\ form = NoPage
  /\ oauth = NoWindow
  /\ smtp = NoDial

\* ------------------------------------------------- requests in flight
\* A handler is served in steps, one for each access to the repository:
\* the step that loads (FindByID, FindByWorkspaceID) and the step that
\* writes (Save, Delete). A call that returns after its first access to the
\* repository takes one step.
Busy(slot) == inflight[slot].phase # "idle"

\* The ids of the rows held by the requests in flight; the repository gives
\* a new row an id of its own.
HeldIds ==
  UNION { {inflight[slot].existing.id} \cup {s.id : s \in inflight[slot].listed} :
            slot \in Slots }

\* The requests of a domain that are in the race domain.
Racing(D) == [f \in DOMAIN D |-> D[f] \cap RaceDomain[f]]

\* The requests accepted now: while a request waits in slot 1, those of the
\* race domain.
Now(D) == IF Busy(1) THEN Racing(D) ELSE D

\* A request may start when no call is being answered and no request is in
\* slot 2.
CanStart == last = NoCall /\ ~Busy(2)

\* A request may load its rows and stay in the slot: in slot 1 when the slot
\* is free.
CanTake(slot) == CanStart /\ (slot = 1 => ~Busy(1))

\* The requests that may take the slot.
Takers(D, slot) == IF slot = 1 THEN Racing(D) ELSE Now(D)

\* The request of the slot may go on: the one of slot 1 when slot 2 is free.
CanReturn(slot) == last = NoCall /\ (slot = 1 => ~Busy(2))

\* The call returns after its first access to the repository; record.loaded
\* is what that access returned.
FinishWith(out, record) ==
  /\ CanStart
  /\ storages' = out.rows
  /\ prev' = storages
  /\ last' = record
  /\ UNCHANGED <<isCloud, inflight, writes, form, oauth, smtp>>

Finish(out, record) == FinishWith(out, Loaded(record, FindByID(storages, record.id)))

\* The request of the slot returns; before are the rows its write found.
Return(slot, out, before, record) ==
  /\ storages' = out.rows
  /\ prev' = before
  /\ last' = record
  /\ inflight' = [inflight EXCEPT ![slot] = Idle]
  /\ UNCHANGED <<isCloud, writes, form, oauth, smtp>>

\* The controller answers and the request is over.
Respond ==
  /\ last # NoCall
  /\ last' = NoCall
  /\ prev' = {}
  /\ UNCHANGED <<storages, isCloud, inflight, writes, form, oauth, smtp>>

\* ----------------------------------------------------------- SaveStorage
\* SaveStorage that returns after at most one access to the repository: a
\* create (service.go:114-134), and an update refused before FindByID, by
\* FindByID or by the checks made on the copy it returned
\* (service.go:59-101).
SaveStorageAtOnce(D) ==
  /\ CanStart
  /\ \E user \in D.users, workspaceID \in D.workspaces :
       \E storage \in Incoming(D, workspaceID) :
         /\ storage.id = Nil => FreeIds(storages, D.ids) \ HeldIds # {}
         /\ \A s \in FindByID(storages, storage.id) : s.type = storage.type
         /\ LET newID == IF storage.id = Nil THEN Min(FreeIds(storages, D.ids) \ HeldIds) ELSE Nil
                out == SaveStorage(storages, isCloud, user, workspaceID, storage, newID)
            IN  /\ storage.id # Nil => out.err # NoError
                /\ Finish(out, Typed(Record("SaveStorage", user, workspaceID, storage.id,
                                            storage.isSystem, storage.payload[storage.type].secrets,
                                            {}, Nil, out),
                                     storage.type, NoError))

\* The update branch of SaveStorage up to Save (service.go:59-101): the row
\* was found and every check passed on the copy FindByID returned. The
\* request stays in the slot with that copy.
BeginSaveStorage(D, slot) ==
  /\ last = NoCall
  /\ inflight[slot].phase = "idle"
  /\ \E user \in D.users, workspaceID \in D.workspaces :
       \E storage \in Incoming(D, workspaceID) :
         /\ storage.id # Nil
         /\ CanUserManageDBs(workspaceID, user)
         /\ ~(isCloud /\ storage.type = "LOCAL" /\ user.role # UserRoleAdmin)
         /\ ~(storage.isSystem /\ user.role # UserRoleAdmin)
         /\ \E existingStorage \in FindByID(storages, storage.id) :
              /\ existingStorage.type = storage.type
              /\ SaveStorageUpdateFrom(storages, workspaceID, storage,
                                       existingStorage).err = NoError
              /\ inflight' = [inflight EXCEPT ![slot] =
                                [Idle EXCEPT !.phase = "loaded", !.user = user,
                                             !.workspaceID = workspaceID,
                                             !.storage = storage,
                                             !.existing = existingStorage,
                                             !.loadedAt = Len(writes)]]
  /\ UNCHANGED <<storages, isCloud, prev, last, writes, form, oauth, smtp>>

\* StorageService.SaveStorage, from the request to the return or to the
\* load of the row.
SaveStorageCall(D) ==
  \/ SaveStorageAtOnce(Now(D))
  \/ \E slot \in Slots : CanTake(slot) /\ BeginSaveStorage(Takers(D, slot), slot)

\* Save and the audit entry of the update branch (service.go:103-112), on
\* the copy loaded before.
SaveStorageReturns(slot) ==
  /\ CanReturn(slot)
  /\ inflight[slot].phase = "loaded"
  /\ LET r == inflight[slot]
         out == SaveStorageUpdateFrom(storages, r.workspaceID, r.storage, r.existing)
     IN  Return(slot, out, storages,
                Loaded(Typed(Record("SaveStorage", r.user, r.workspaceID, r.storage.id,
                                    r.storage.isSystem,
                                    r.storage.payload[r.storage.type].secrets,
                                    {}, Nil, out),
                             r.storage.type, NoError),
                       {r.existing}))

\* --------------------------------------------------------- DeleteStorage
\* DeleteStorage that returns after FindByID: the row is not found or the
\* checks of the rights refuse the request (service.go:143-159). The
\* attachment counter is not asked; the record keeps what it would answer.
DeleteStorageAtOnce(D) ==
  /\ CanStart
  /\ \E user \in D.users, storageID \in D.ids, attached \in SUBSET D.databases :
       LET out == DeleteStorage(storages, user, storageID, attached)
       IN  /\ DeleteStorage(storages, user, storageID, {}).err # NoError
           /\ Finish(out, Record("DeleteStorage", user, NoWorkspace, storageID, FALSE,
                                 NoSecrets, attached, Nil, out))

\* DeleteStorage up to the call of the attachment counter
\* (service.go:143-161): the row was found and the rights were granted.
BeginDeleteStorage(D, slot) ==
  /\ \E user \in D.users, storageID \in D.ids :
       \E storage \in FindByID(storages, storageID) :
         /\ DeleteStorageFrom(storages, user, storage, {}).err = NoError
         /\ inflight' = [inflight EXCEPT ![slot] =
                           [Idle EXCEPT !.phase = "deleting", !.user = user,
                                        !.workspaceID = storage.workspaceID,
                                        !.storage = storage, !.existing = storage]]
  /\ UNCHANGED <<storages, isCloud, prev, last, writes, form, oauth, smtp>>

\* StorageService.DeleteStorage, from the request to the return or to the
\* load of the row.
DeleteStorageCall(D) ==
  \/ DeleteStorageAtOnce(Now(D))
  \/ \E slot \in Slots : CanTake(slot) /\ BeginDeleteStorage(Takers(D, slot), slot)

\* The attachment counter has answered: the rest of DeleteStorage
\* (service.go:161-180), on the copy loaded before.
DeleteStorageReturns(D, slot) ==
  /\ CanReturn(slot)
  /\ inflight[slot].phase = "deleting"
  /\ \E attached \in SUBSET Now(D).databases :
       LET r == inflight[slot]
           out == DeleteStorageFrom(storages, r.user, r.existing, attached)
       IN  Return(slot, out, storages,
                  Loaded(Record("DeleteStorage", r.user, NoWorkspace, r.existing.id, FALSE,
                                NoSecrets, attached, Nil, out),
                         {r.existing}))

\* ------------------------------------------------------------- the reads
GetStorageCall(D) ==
  /\ CanStart
  /\ \E user \in Now(D).users, id \in Now(D).ids :
       LET out == GetStorage(storages, user, id)
       IN  Finish(out, Record("GetStorage", user, NoWorkspace, id, FALSE,
                              NoSecrets, {}, Nil, out))

GetStoragesCall(D) ==
  /\ CanStart
  /\ \E user \in Now(D).users, workspaceID \in Now(D).workspaces :
       LET out == GetStorages(storages, user, workspaceID)
       IN  Finish(out, Record("GetStorages", user, workspaceID, Nil, FALSE,
                              NoSecrets, {}, Nil, out))

\* -------------------------------------------- TransferStorageToWorkspace
\* TransferStorageToWorkspace that returns after FindByID: the row is not
\* found, it is a system storage or the rights are missing
\* (service.go:319-342).
TransferStorageToWorkspaceAtOnce(D) ==
  /\ CanStart
  /\ \E user \in D.users, storageID \in D.ids, targetWorkspaceID \in D.workspaces,
        single \in {Nil} \cup D.databases, attached \in SUBSET D.databases :
       LET out == TransferStorageToWorkspace(storages, user, storageID,
                                             targetWorkspaceID, single, attached)
       IN  /\ TransferStorageToWorkspace(storages, user, storageID,
                                         targetWorkspaceID, Nil, {}).err # NoError
           /\ Finish(out, Record("TransferStorageToWorkspace", user, targetWorkspaceID,
                                 storageID, FALSE, NoSecrets, attached, single, out))

\* TransferStorageToWorkspace up to the call of the attachment counter
\* (service.go:319-344): the row was found, it is not a system storage and
\* the rights were granted.
BeginTransferStorageToWorkspace(D, slot) ==
  /\ \E user \in D.users, storageID \in D.ids, targetWorkspaceID \in D.workspaces,
        single \in {Nil} \cup D.databases :
       \E existingStorage \in FindByID(storages, storageID) :
         /\ TransferStorageToWorkspaceFrom(storages, user, existingStorage,
                                           targetWorkspaceID, Nil, {}).err = NoError
         /\ inflight' = [inflight EXCEPT ![slot] =
                           [Idle EXCEPT !.phase = "transferring", !.user = user,
                                        !.workspaceID = targetWorkspaceID,
                                        !.storage = existingStorage,
                                        !.existing = existingStorage,
                                        !.single = single]]
  /\ UNCHANGED <<storages, isCloud, prev, last, writes, form, oauth, smtp>>

\* StorageService.TransferStorageToWorkspace, from the request to the
\* return or to the load of the row.
TransferStorageToWorkspaceCall(D) ==
  \/ TransferStorageToWorkspaceAtOnce(Now(D))
  \/ \E slot \in Slots :
       CanTake(slot) /\ BeginTransferStorageToWorkspace(Takers(D, slot), slot)

\* The attachment counter has answered: the rest of
\* TransferStorageToWorkspace (service.go:344-378), on the copy loaded
\* before.
TransferStorageToWorkspaceReturns(D, slot) ==
  /\ CanReturn(slot)
  /\ inflight[slot].phase = "transferring"
  /\ \E attached \in SUBSET Now(D).databases :
       LET r == inflight[slot]
           out == TransferStorageToWorkspaceFrom(storages, r.user, r.existing,
                                                 r.workspaceID, r.single, attached)
       IN  Return(slot, out, storages,
                  Loaded(Record("TransferStorageToWorkspace", r.user, r.workspaceID,
                                r.existing.id, FALSE, NoSecrets, attached, r.single, out),
                         {r.existing}))

\* --------------------------------------------- OnBeforeWorkspaceDeletion
\* The attachment counter is not asked by OnBeforeWorkspaceDeletion; the
\* record keeps what it would answer for one storage.
\* OnBeforeWorkspaceDeletion that returns after FindByWorkspaceID: the list
\* holds no storage to delete before the loop returns.
OnBeforeWorkspaceDeletionAtOnce(D) ==
  /\ CanStart
  /\ \E workspaceID \in D.workspaces, storageID \in D.ids, attached \in SUBSET D.databases :
       \E list \in Listings(FindByWorkspaceID(storages, workspaceID)) :
         LET pending == Pending(workspaceID, list)
             out == Outcome(ReturnedError(workspaceID, pending), storages, 0, {})
         IN  /\ Returns(workspaceID, pending)
             /\ FinishWith(out, Loaded(Record("OnBeforeWorkspaceDeletion", Root, workspaceID,
                                              storageID, FALSE, NoSecrets, attached, Nil, out),
                                       FindByWorkspaceID(storages, workspaceID)))

\* OnBeforeWorkspaceDeletion up to its first Delete (service.go:29-46): the
\* storages are listed and the loop has reached one it deletes.
BeginOnBeforeWorkspaceDeletion(D, slot) ==
  /\ \E workspaceID \in D.workspaces :
       \E list \in Listings(FindByWorkspaceID(storages, workspaceID)) :
         LET pending == Pending(workspaceID, list)
         IN  /\ ~Returns(workspaceID, pending)
             /\ inflight' = [inflight EXCEPT ![slot] =
                               [Idle EXCEPT !.phase = "looping",
                                            !.workspaceID = workspaceID,
                                            !.list = pending,
                                            !.listed = FindByWorkspaceID(storages, workspaceID)]]
  /\ UNCHANGED <<storages, isCloud, prev, last, writes, form, oauth, smtp>>

\* StorageService.OnBeforeWorkspaceDeletion, from the call to the return or
\* to the first storage the loop deletes.
OnBeforeWorkspaceDeletionCall(D) ==
  \/ OnBeforeWorkspaceDeletionAtOnce(Now(D))
  \/ \E slot \in Slots :
       CanTake(slot) /\ BeginOnBeforeWorkspaceDeletion(Takers(D, slot), slot)

\* One Delete of the loop (service.go:46) and the loop up to the next
\* Delete or to the return. When the call returns, prev are the rows with
\* the rows it deleted put back.
OnBeforeWorkspaceDeletionDeletes(D, slot) ==
  /\ CanReturn(slot)
  /\ inflight[slot].phase = "looping"
  /\ LET r == inflight[slot]
         rows == RepoDelete(storages, Head(r.list))
         removed == r.removed \cup (storages \ rows)
         pending == Pending(r.workspaceID, Tail(r.list))
         out == Outcome(ReturnedError(r.workspaceID, pending), rows, 0, {})
     IN  IF Returns(r.workspaceID, pending)
         THEN \E storageID \in Now(D).ids, attached \in SUBSET Now(D).databases :
                Return(slot, out, rows \cup removed,
                       Loaded(Record("OnBeforeWorkspaceDeletion", Root, r.workspaceID,
                                     storageID, FALSE, NoSecrets, attached, Nil, out),
                              r.listed))
         ELSE /\ storages' = rows
              /\ inflight' = [inflight EXCEPT ![slot].list = pending,
                                              ![slot].removed = removed]
              /\ UNCHANGED <<isCloud, prev, last, writes, form, oauth, smtp>>

\* ------------------------------------------------- TestStorageConnection
\* TestStorageConnection that returns after FindByID: the row is not found
\* or the actor may not view it (service.go:243-254).
TestStorageConnectionAtOnce(D) ==
  /\ CanStart
  /\ \E user \in D.users, storageID \in D.ids :
       LET out == TestStorageConnection(storages, user, storageID, NoError)
       IN  /\ out.err # NoError
           /\ Finish(Failed(out.err, storages),
                     Record("TestStorageConnection", user, NoWorkspace, storageID,
                            FALSE, NoSecrets, {}, Nil, out))

\* TestStorageConnection up to the call of storage.TestConnection
\* (service.go:243-256): the row is loaded, the rights are granted and the
\* probe is on its way.
BeginTestStorageConnection(D, slot) ==
  /\ \E user \in D.users, storageID \in D.ids :
       \E storage \in FindByID(storages, storageID) :
         /\ TestStorageConnectionFrom(storages, user, storage, NoError).err = NoError
         /\ inflight' = [inflight EXCEPT ![slot] =
                           [Idle EXCEPT !.phase = "probing", !.user = user,
                                        !.workspaceID = storage.workspaceID,
                                        !.storage = storage, !.existing = storage]]
  /\ UNCHANGED <<storages, isCloud, prev, last, writes, form, oauth, smtp>>

\* StorageService.TestStorageConnection, from the request to the return or
\* to the probe.
TestStorageConnectionCall(D) ==
  \/ TestStorageConnectionAtOnce(Now(D))
  \/ \E slot \in Slots : CanTake(slot) /\ BeginTestStorageConnection(Takers(D, slot), slot)

\* The probe has answered: the rest of TestStorageConnection
\* (service.go:256-269), on the copy loaded before.
TestStorageConnectionReturns(slot) ==
  /\ CanReturn(slot)
  /\ inflight[slot].phase = "probing"
  /\ \E probe \in Probes :
       LET r == inflight[slot]
           out == TestStorageConnectionFrom(storages, r.user, r.existing, probe)
       IN  Return(slot, out, storages,
                  Loaded(Typed(Record("TestStorageConnection", r.user, NoWorkspace,
                                      r.existing.id, FALSE, NoSecrets, {}, Nil, out),
                               "", probe),
                         {r.existing}))

\* ------------------------------------------- TestStorageConnectionDirect
TestStorageConnectionDirectCall(D) ==
  /\ CanStart
  /\ \E user \in Now(D).users, workspaceID \in Now(D).workspaces, probe \in Probes :
       \E storage \in Incoming(Now(D), workspaceID) :
         /\ \A s \in FindByID(storages, storage.id) : s.type = storage.type
         /\ LET out == TestStorageConnectionDirect(storages, isCloud, user, storage, probe)
            IN  Finish(out, Typed(Record("TestStorageConnectionDirect", user, workspaceID,
                                         storage.id, storage.isSystem,
                                         storage.payload[storage.type].secrets, {}, Nil, out),
                                  storage.type, probe))

\* POST /storages/direct-test: the controller and the service behind it.
TestStorageConnectionDirectRequest(D) ==
  /\ CanStart
  /\ \E user \in Now(D).users, workspaceID \in Now(D).workspaces, probe \in Probes :
       \E request \in Incoming(Now(D), workspaceID) :
         /\ \A s \in FindByID(storages, request.id) : s.type = request.type
         /\ LET out == ControllerTestStorageConnectionDirect(storages, isCloud, user, request, probe)
            IN  Finish(out, WithConfig(Typed(Record("TestStorageConnectionDirectRequest", user,
                                                    workspaceID, request.id, request.isSystem,
                                                    request.payload[request.type].secrets,
                                                    {}, Nil, out),
                                             request.type, probe),
                                       request.payload[request.type].config))

\* ------------------------------------------------------ specifications
NextIn(D) ==
  \/ SaveStorageCall(D)
  \/ \E slot \in Slots : SaveStorageReturns(slot)
  \/ DeleteStorageCall(D)
  \/ \E slot \in Slots : DeleteStorageReturns(D, slot)
  \/ GetStorageCall(D)
  \/ GetStoragesCall(D)
  \/ TransferStorageToWorkspaceCall(D)
  \/ \E slot \in Slots : TransferStorageToWorkspaceReturns(D, slot)
  \/ OnBeforeWorkspaceDeletionCall(D)
  \/ \E slot \in Slots : OnBeforeWorkspaceDeletionDeletes(D, slot)
  \/ Respond

Next == NextIn(MainDomain)

Spec == Init /\ [][Next]_vars

NextSecrets == NextIn(SecretsDomain)

SpecSecrets == Init /\ [][NextSecrets]_vars

\* The connection tests, with the saves that make the rows they address.
NextProbe ==
  \/ SaveStorageCall(ProbeDomain)
  \/ \E slot \in Slots : SaveStorageReturns(slot)
  \/ TestStorageConnectionCall(ProbeDomain)
  \/ \E slot \in Slots : TestStorageConnectionReturns(slot)
  \/ TestStorageConnectionDirectCall(ProbeDomain)
  \/ TestStorageConnectionDirectRequest(ProbeDomain)
  \/ Respond

SpecProbe == Init /\ [][NextProbe]_vars

NextAudit ==
  \/ NextIn(AuditDomain)
  \/ TestStorageConnectionCall(AuditDomain)
  \/ \E slot \in Slots : TestStorageConnectionReturns(slot)
  \/ TestStorageConnectionDirectCall(AuditDomain)

SpecAudit == Init /\ [][NextAudit]_vars

\* Two SaveStorage updates that both load the row before either saves: the
\* second step of each saves the row, writes the audit entry of the update
\* and keeps the request, with its error and its audit entry, in its slot
\* until both are answered (service.go:85-112).
CompleteSaveStorage(slot) ==
  /\ last = NoCall
  /\ inflight[slot].phase = "loaded"
  /\ LET r == inflight[slot]
         out == SaveStorageUpdateFrom(storages, r.workspaceID, r.storage, r.existing)
     IN  /\ storages' = out.rows
         /\ inflight' = [inflight EXCEPT ![slot].phase = "done", ![slot].err = out.err,
                                         ![slot].audit = out.audit]
         /\ writes' = IF out.err = NoError THEN Append(writes, slot) ELSE writes
  /\ UNCHANGED <<isCloud, prev, last, form, oauth, smtp>>

\* Both requests are answered.
Settle ==
  /\ last = NoCall
  /\ \E slot \in Slots : inflight[slot].phase = "done"
  /\ \A slot \in Slots : inflight[slot].phase # "loaded"
  /\ inflight' = [slot \in Slots |-> Idle]
  /\ writes' = << >>
  /\ UNCHANGED <<storages, isCloud, prev, last, form, oauth, smtp>>

\* A create, or a SaveStorage refused before the row is loaded, while no
\* request is in flight.
SaveStorageAlone(D) ==
  /\ \A slot \in Slots : ~Busy(slot)
  /\ SaveStorageAtOnce(D)

NextConcurrent ==
  \/ SaveStorageAlone(ConcurrentDomain)
  \/ Respond
  \/ \E slot \in Slots : BeginSaveStorage(ConcurrentDomain, slot)
  \/ \E slot \in Slots : CompleteSaveStorage(slot)
  \/ Settle

SpecConcurrent == Init /\ [][NextConcurrent]_vars

\* SaveStorage, TransferStorageToWorkspace and TestStorageConnection on one
\* NAS storage.
NextRace ==
  \/ SaveStorageCall(RaceDomain)
  \/ \E slot \in Slots : SaveStorageReturns(slot)
  \/ TransferStorageToWorkspaceCall(RaceDomain)
  \/ \E slot \in Slots : TransferStorageToWorkspaceReturns(RaceDomain, slot)
  \/ TestStorageConnectionCall(RaceDomain)
  \/ \E slot \in Slots : TestStorageConnectionReturns(slot)
  \/ Respond

SpecRace == Init /\ [][NextRace]_vars

\* ------------------------------------------- the storage page and form
backend == <<storages, isCloud, prev, last, inflight, writes>>

FormUsers == UsersNamed({"root", "alice"})

\* The workspace the dialog of a backup configuration creates storages in.
FormWorkspaces == {"W1"}

\* The values of authMethod the Azure sub-editor offers.
AzureAuthMethods == {"ACCOUNT_KEY", "CONNECTION_STRING"}

\* The types of the storages the page is opened on.
PageTypes == {"NAS"}

\* The rows getStorage is asked for.
PageStorages ==
  { MakeStorage(1, "W1", "n1", type, isSystem, "c1",
                [f \in SensitiveFields(type) |-> Empty]) :
      type \in PageTypes, isSystem \in BOOLEAN }

\* The steps the model takes in the window in front while a form is mounted
\* in the window behind.
MaxBeside == 1

\* The steps the model takes in the first window while the page of the
\* window opened by goToAuthUrl is loading.
MaxWhileLoading == 0

\* A step of the window in front: it leaves the other window as it is.
Beside ==
  IF oauth.phase = "none" THEN UNCHANGED oauth
  ELSE /\ oauth.beside < (IF oauth.phase = "mounted" THEN MaxBeside ELSE MaxWhileLoading)
       /\ oauth' = [oauth EXCEPT !.beside = @ + 1]

\* What a field of a sub-editor may be set to.
FormConfigs == {"", "c1"}

FormSecrets == {Empty, <<"k1">>}

\* What the name input of the page may be set to.
PageNames == {"", "n2"}

\* The getStorage requests that may wait for their answer.
MaxLoads == 1

\* StorageComponent is shown: its useEffect calls loadSettings.
OpenPage ==
  /\ form.view = "none"
  /\ \E user \in FormUsers, can \in BOOLEAN :
       form' = loadSettings([NoPage EXCEPT !.view = "page", !.user = user,
                                           !.isCanManageStorages = can])
  /\ Beside
  /\ UNCHANGED <<backend, smtp>>

\* getStorage is answered and setStorage is called with the answer, which
\* is what GetStorage returns to the user of the page.
SettingsLoaded ==
  /\ form.view = "page"
  /\ form.loads > 0
  /\ \E stored \in PageStorages :
       LET out == GetStorage({stored}, form.user, stored.id)
       IN  /\ out.err = NoError
           /\ \E loaded \in out.ret :
                form' = ShowStorage([form EXCEPT !.loads = @ - 1], loaded)
  /\ Beside
  /\ UNCHANGED <<backend, smtp>>

\* getStorage is rejected: loadSettings has no catch and storage stays as it
\* is.
SettingsLoadFailed ==
  /\ form.view = "page"
  /\ form.loads > 0
  /\ form' = [form EXCEPT !.loads = @ - 1]
  /\ Beside
  /\ UNCHANGED <<backend, smtp>>

\* The page is given another storageId: its useEffect calls loadSettings,
\* and isEditName and isEditSettings stay as they are.
ChangeStorageId ==
  /\ form.view = "page"
  /\ form.loads < MaxLoads
  /\ form' = loadSettings(form)
  /\ Beside
  /\ UNCHANGED <<backend, smtp>>

\* startEdit('name') from the pen next to the name; isEditSettings is
\* cleared, which unmounts the form.
StartEditName ==
  /\ NamePenRendered(form)
  /\ form' = Unmount([form EXCEPT !.editStorage = form.loaded,
                                  !.isEditName = TRUE, !.isEditSettings = FALSE,
                                  !.isNameUnsaved = FALSE])
  /\ Beside
  /\ UNCHANGED <<backend, smtp>>

\* startEdit('settings') from the pen, and the useEffect of the form it
\* mounts.
StartEditSettings ==
  /\ SettingsPenRendered(form)
  /\ form' = Mount([form EXCEPT !.editStorage = form.loaded,
                                !.isEditName = FALSE, !.isEditSettings = TRUE,
                                !.isNameUnsaved = FALSE],
                   form.loaded)
  /\ Beside
  /\ UNCHANGED <<backend, smtp>>

\* onChange of the name input of the page.
EditPageName ==
  /\ form.view = "page" /\ form.hasStorage /\ form.isEditName
  /\ form.editStorage # NoStorage
  /\ \E name \in PageNames \ {form.editStorage.name} :
       form' = [form EXCEPT !.editStorage.name = name, !.isNameUnsaved = TRUE]
  /\ Beside
  /\ UNCHANGED <<backend, smtp>>

\* The close button next to the name input.
CancelEditName ==
  /\ form.view = "page" /\ form.hasStorage /\ form.isEditName
  /\ form' = [form EXCEPT !.isEditName = FALSE, !.isNameUnsaved = FALSE,
                          !.editStorage = NoStorage]
  /\ Beside
  /\ UNCHANGED <<backend, smtp>>

\* saveName up to the answer of saveStorage.
ClickSaveName ==
  /\ form.view = "page" /\ form.hasStorage /\ form.isEditName
  /\ form.isNameUnsaved /\ ~form.isSavingName
  /\ form.editStorage # NoStorage /\ form.editStorage.name # ""
  /\ form' = [form EXCEPT !.isSavingName = TRUE, !.submitted = form.editStorage]
  /\ Beside
  /\ UNCHANGED <<backend, smtp>>

\* saveName after the answer: the storage it sent becomes the storage of the
\* page.
SaveNameAnswered ==
  /\ form.view = "page"
  /\ form.isSavingName
  /\ \E ok \in BOOLEAN :
       form' = IF ok
               THEN ShowStorage([form EXCEPT !.isSavingName = FALSE,
                                             !.isNameUnsaved = FALSE,
                                             !.isEditName = FALSE,
                                             !.submitted = NoStorage],
                                form.submitted)
               ELSE [form EXCEPT !.isSavingName = FALSE, !.submitted = NoStorage]
  /\ Beside
  /\ UNCHANGED <<backend, smtp>>

\* The form without editingStorage, in the dialog of a backup configuration.
OpenCreate ==
  /\ form.view = "none"
  /\ \E user \in FormUsers, workspaceId \in FormWorkspaces :
       form' = Mount([NoPage EXCEPT !.view = "create", !.user = user],
                     NewStorage(workspaceId))
  /\ Beside
  /\ UNCHANGED <<backend, smtp>>

\* The types the model chooses in the Type select: every type in the
\* dialog, these on the storage page and on the OAuth page.
PageFormTypes == {"LOCAL", "NAS", "GOOGLE_DRIVE"}

Choosable(f) == IF f.view = "create" THEN StorageTypes ELSE PageFormTypes

\* onChange of the Type select.
ChooseStorageType ==
  /\ EditorMounted(form)
  /\ \E type \in (storageTypeOptions(isCloud, form.user) \cap Choosable(form))
                   \ {form.storage.type} :
       form' = [form EXCEPT !.storage = setStorageType(form.storage, type),
                            !.isUnsaved = TRUE, !.changedSinceTest = TRUE]
  /\ Beside
  /\ UNCHANGED <<backend, smtp>>

\* onChange of the Name input (isShowName).
EditName ==
  /\ form.view = "create"
  /\ \E name \in {"", "n1"} \ {form.storage.name} :
       form' = [form EXCEPT !.storage.name = name, !.isUnsaved = TRUE]
  /\ Beside
  /\ UNCHANGED <<backend, smtp>>

\* onChange of the "Is system?" switch.
ToggleIsSystem ==
  /\ EditorMounted(form)
  /\ isCloud /\ form.user.role = UserRoleAdmin
  /\ ~(form.storage.id # Nil /\ form.storage.isSystem)
  /\ form' = [form EXCEPT !.storage.isSystem = ~@, !.isUnsaved = TRUE]
  /\ Beside
  /\ UNCHANGED <<backend, smtp>>

\* The values a sub-editor can give the payload of its type. The Google
\* Drive sub-editor has inputs for clientId and clientSecret only, both
\* disabled once tokenJson is set; what is typed is a text with or without
\* blanks around it, and the sub-editor sets the text trimmed. The Azure
\* sub-editor also sets authMethod and accountName.
Editable(type, old) ==
  IF type = "GOOGLE_DRIVE"
  THEN IF old.isNil \/ old.secrets["tokenJson"] # Empty THEN {}
       ELSE { [old EXCEPT !.config = typed.text] :
                typed \in [text : FormConfigs, blanks : BOOLEAN] }
            \cup { [old EXCEPT !.secrets["clientSecret"] = typed.text] :
                     typed \in [text : FormSecrets, blanks : BOOLEAN] }
  ELSE { [old EXCEPT !.config = c] : c \in FormConfigs }
       \cup { [old EXCEPT !.secrets[f] = v] :
                f \in SensitiveFields(type), v \in FormSecrets }
       \cup IF type = "AZURE_BLOB"
            THEN { [old EXCEPT !.authMethod = m] : m \in AzureAuthMethods }
                 \cup { [old EXCEPT !.accountName = c] : c \in FormConfigs }
            ELSE {}

\* A change event of a field of the sub-editor of the type; the sub-editor
\* calls setStorage and the setUnsaved it was given. The Google Drive
\* sub-editor does so also when the trimmed text is the value the field
\* holds: the storage stays and setUnsaved takes the Save button away.
EditPayloadField ==
  /\ EditorMounted(form)
  /\ form.storage.type # "LOCAL"
  /\ LET type == form.storage.type
         old == form.storage.payload[type]
     IN  \E new \in Editable(type, old) :
           /\ new # old \/ type = "GOOGLE_DRIVE"
           /\ form' = [form EXCEPT !.storage.payload[type] = new,
                                   !.isUnsaved = TRUE,
                                   !.isTestConnectionSuccess = FALSE,
                                   !.connectionError = IF type = "S3" THEN FALSE ELSE @,
                                   !.changedSinceTest = IF new # old THEN TRUE ELSE @]
  /\ Beside
  /\ UNCHANGED <<backend, smtp>>

\* goToAuthUrl of the Google Drive sub-editor: window.open of the consent
\* page with the storage of the form in the state parameter. The form stays
\* as it is. The model follows one opened window at a time.
Authorize ==
  /\ EditorMounted(form)
  /\ form.storage.type = "GOOGLE_DRIVE"
  /\ oauth.phase = "none"
  /\ LET p == form.storage.payload["GOOGLE_DRIVE"]
     IN  /\ ~p.isNil
         /\ p.secrets["tokenJson"] = Empty
         /\ p.config # "" /\ p.secrets["clientSecret"] # Empty
  /\ oauth' = [NoWindow EXCEPT !.phase = "consent", !.storage = form.storage,
                               !.user = form.user]
  /\ UNCHANGED <<backend, form, smtp>>

\* The consent page comes back with code and state: OauthStorageComponent is
\* shown with its spinner and exchangeGoogleOauthCode sends the exchange;
\* the version with getCurrentUser asks for the user too.
ConsentGranted ==
  /\ oauth.phase = "consent"
  /\ \E version \in OauthVersions :
       oauth' = [oauth EXCEPT !.phase = "exchanging", !.version = version,
                              !.asked = IF version = "pages" THEN "none" ELSE "asked"]
  /\ UNCHANGED <<backend, form, smtp>>

\* The consent page comes back without a code: the alert, and the spinner
\* stays.
ConsentRefused ==
  /\ oauth.phase = "consent"
  /\ \E version \in OauthVersions :
       oauth' = [oauth EXCEPT !.phase = "stuck", !.version = version,
                              !.asked = IF version = "pages" THEN "none" ELSE "asked"]
  /\ UNCHANGED <<backend, form, smtp>>

\* fetch of the exchange is answered, or rejected, which shows the alert and
\* starts the timer.
ExchangeAnswered ==
  /\ oauth.phase = "exchanging"
  /\ \E answer \in {"ok", "refused", "rejected"} :
       oauth' = IF answer = "rejected" THEN [oauth EXCEPT !.phase = "failed"]
                ELSE [oauth EXCEPT !.phase = "reading", !.ok = (answer = "ok")]
  /\ UNCHANGED <<backend, form, smtp>>

\* OauthStorageComponent renders EditStorageComponent on its storage, the
\* token put in it. When no other window is open the form is the one in
\* front; otherwise it is mounted behind the window in front.
MountOpened(user) ==
  LET mounted == Mount([NoPage EXCEPT !.view = "oauth", !.user = user],
                       [oauth.storage EXCEPT
                          !.payload["GOOGLE_DRIVE"].secrets["tokenJson"] = <<"k1">>])
  IN  IF form.view = "none"
      THEN form' = mounted /\ oauth' = NoWindow
      ELSE /\ form' = form
           /\ oauth' = [NoWindow EXCEPT !.phase = "mounted", !.behind = mounted]

\* response.json is answered. After a refused exchange the error is thrown:
\* the alert and the timer. Otherwise the token is put in the storage of the
\* state parameter and setStorage is called. The version of pages renders
\* the form without a user: in cloud mode the render reads user.role and
\* throws. The version with getCurrentUser renders it once the user is set.
ResponseRead ==
  /\ oauth.phase = "reading"
  /\ \E read \in BOOLEAN :
       IF ~oauth.ok \/ ~read
       THEN /\ oauth' = [oauth EXCEPT !.phase = "failed"]
            /\ UNCHANGED form
       ELSE IF oauth.version = "pages"
       THEN IF isCloud
            THEN /\ oauth' = [oauth EXCEPT !.phase = "crashed"]
                 /\ UNCHANGED form
            ELSE MountOpened(NoUser)
       ELSE IF oauth.asked = "set"
            THEN MountOpened(oauth.user)
            ELSE /\ oauth' = [oauth EXCEPT !.phase = "ready"]
                 /\ UNCHANGED form
  /\ UNCHANGED <<backend, smtp>>

\* getCurrentUser is answered: setUser, which renders the form when storage
\* is set; or it is rejected and the window goes to the home page.
UserAnswered ==
  /\ oauth.asked = "asked"
  /\ oauth.phase \in {"exchanging", "reading", "ready", "failed", "stuck"}
  /\ \E answered \in BOOLEAN :
       IF ~answered
       THEN /\ oauth' = NoWindow
            /\ UNCHANGED form
       ELSE IF oauth.phase = "ready"
       THEN MountOpened(oauth.user)
       ELSE /\ oauth' = [oauth EXCEPT !.asked = "set"]
            /\ UNCHANGED form
  /\ UNCHANGED <<backend, smtp>>

\* The timer of the failed exchange fires: the window goes to the home page.
ExchangeTimer ==
  /\ oauth.phase = "failed"
  /\ oauth' = NoWindow
  /\ UNCHANGED <<backend, form, smtp>>

\* The user brings the window behind to the front.
SwitchWindow ==
  /\ oauth.phase = "mounted"
  /\ form' = oauth.behind
  /\ oauth' = IF form.view = "none" THEN NoWindow ELSE [oauth EXCEPT !.behind = form]
  /\ UNCHANGED <<backend, smtp>>

\* The user closes the window goToAuthUrl opened before its form is
\* mounted, or the window behind.
CloseOauthWindow ==
  /\ oauth.phase # "none"
  /\ oauth' = NoWindow
  /\ UNCHANGED <<backend, form, smtp>>

\* The user closes the window in front.
CloseWindow ==
  /\ form.view # "none"
  /\ form' = NoPage
  /\ UNCHANGED <<backend, oauth, smtp>>

\* testConnection up to the await.
ClickTestConnection ==
  /\ TestEnabled(form)
  /\ form' = [form EXCEPT !.isTestingConnection = TRUE, !.connectionError = FALSE,
                          !.changedSinceTest = FALSE]
  /\ Beside
  /\ UNCHANGED <<backend, smtp>>

\* testConnection after the await: testStorageConnectionDirect answered.
TestAnswered ==
  /\ EditorMounted(form)
  /\ form.isTestingConnection
  /\ \E ok \in BOOLEAN :
       form' = [form EXCEPT !.isTestingConnection = FALSE,
                            !.isTestConnectionSuccess = IF ok THEN TRUE ELSE @,
                            !.connectionError = IF ok THEN @ ELSE TRUE,
                            !.lastTest = IF ok THEN "ok" ELSE "failed"]
  /\ Beside
  /\ UNCHANGED <<backend, smtp>>

\* save up to the await.
ClickSave ==
  /\ SaveEnabled(form)
  /\ form' = [form EXCEPT !.isSaving = TRUE]
  /\ Beside
  /\ UNCHANGED <<backend, smtp>>

\* save after the await; onChanged closes the dialog of the create form and
\* leaves the OAuth page.
SaveAnswered ==
  /\ EditorMounted(form)
  /\ form.isSaving
  /\ \E ok \in BOOLEAN :
       form' = IF ok /\ form.view \in {"create", "oauth"} THEN NoPage
               ELSE [form EXCEPT !.isSaving = FALSE,
                                 !.isUnsaved = IF ok THEN FALSE ELSE @]
  /\ Beside
  /\ UNCHANGED <<backend, smtp>>

\* Cancel on the page (onClose: isEditSettings and editStorage are cleared
\* and loadSettings is called), onCancel of the dialog and of the modal of
\* the OAuth page.
CloseForm ==
  /\ EditorMounted(form)
  /\ IF form.view \in {"create", "oauth"} THEN form' = NoPage
     ELSE /\ ~form.isSaving
          /\ form.loads < MaxLoads
          /\ form' = loadSettings([form EXCEPT !.isEditSettings = FALSE])
  /\ Beside
  /\ UNCHANGED <<backend, smtp>>

NextEditor ==
  \/ OpenPage
  \/ SettingsLoaded
  \/ SettingsLoadFailed
  \/ ChangeStorageId
  \/ StartEditName
  \/ StartEditSettings
  \/ EditPageName
  \/ CancelEditName
  \/ ClickSaveName
  \/ SaveNameAnswered
  \/ OpenCreate
  \/ ChooseStorageType
  \/ EditName
  \/ ToggleIsSystem
  \/ EditPayloadField
  \/ Authorize
  \/ ConsentGranted
  \/ ConsentRefused
  \/ ExchangeAnswered
  \/ ResponseRead
  \/ UserAnswered
  \/ ExchangeTimer
  \/ SwitchWindow
  \/ CloseOauthWindow
  \/ CloseWindow
  \/ ClickTestConnection
  \/ TestAnswered
  \/ ClickSave
  \/ SaveAnswered
  \/ CloseForm

SpecEditor == Init /\ [][NextEditor]_vars

\* ------------------------------------------------ sending over SMTP
Senders == {"EmailNotifier", "EmailSMTPSender"}

\* sendImplicitTLS or sendStartTLS calls authenticateWithRetry.
BeginAuthenticate ==
  /\ smtp.pc = "idle"
  /\ \E sender \in Senders, tls \in {"implicit", "starttls"}, isAuthRequired \in BOOLEAN :
       smtp' = [NoDial EXCEPT !.pc = "create1", !.sender = sender, !.tls = tls,
                              !.isAuthRequired = isAuthRequired]
  /\ UNCHANGED <<backend, form, oauth>>

CreateClientStep ==
  /\ smtp.pc \in {"create1", "create2"}
  /\ \E outcome \in CreateOutcomes(smtp.tls) : smtp' = createClient(smtp, outcome)
  /\ UNCHANGED <<backend, form, oauth>>

PlainAuthStep ==
  /\ smtp.pc = "plain"
  /\ \E ok \in BOOLEAN : smtp' = plainAuth(smtp, ok)
  /\ UNCHANGED <<backend, form, oauth>>

LoginAuthStep ==
  /\ smtp.pc = "login"
  /\ \E ok \in BOOLEAN : smtp' = loginAuth(smtp, ok)
  /\ UNCHANGED <<backend, form, oauth>>

\* The caller: on an error it returns it; otherwise it sends the mail and
\* its deferred cleanup() runs.
CallerReturns ==
  /\ smtp.pc = "returned"
  /\ smtp' = IF smtp.err # NoError THEN [smtp EXCEPT !.pc = "done"]
             ELSE [cleanup(smtp) EXCEPT !.pc = "done"]
  /\ UNCHANGED <<backend, form, oauth>>

NextCall ==
  /\ smtp.pc = "done"
  /\ smtp' = NoDial
  /\ UNCHANGED <<backend, form, oauth>>

NextSmtp ==
  \/ BeginAuthenticate
  \/ CreateClientStep
  \/ PlainAuthStep
  \/ LoginAuthStep
  \/ CallerReturns
  \/ NextCall

SpecSmtp == Init /\ [][NextSmtp]_vars

\* ------------------------------------------------------------ properties
\* The row with an id, in a set of rows that holds it.
Row(rows, id) == CHOOSE s \in rows : s.id = id

Calling(op) == last.op = op

IsUpdate == Calling("SaveStorage") /\ last.id # Nil

Succeeded == last.err = NoError

\* C1: after a successful SaveStorage update, each sensitive field of the
\* row holds the value of the row the call loaded when the incoming field
\* was empty
\* (still one Decrypt away from a plaintext), and the encryption of the
\* incoming value otherwise.
C1_UpdateKeepsOrReplacesSecret ==
  (IsUpdate /\ Succeeded) =>
    LET before == Row(last.loaded, last.id)
        after == Row(storages, last.id)
    IN  \A f \in DOMAIN last.secrets :
          LET old == before.payload[before.type].secrets[f]
              new == after.payload[after.type].secrets[f]
              incoming == last.secrets[f]
          IN  /\ incoming = Empty =>
                   /\ new = old
                   /\ old # Empty => ~IsEncrypted(Decrypt(after.id, new))
              /\ (incoming # Empty /\ ~IsEncrypted(incoming)) =>
                   /\ new = Encrypt(after.id, incoming)
                   /\ Decrypt(after.id, new) = incoming
              /\ IsEncrypted(incoming) => new = incoming

C1_Witness ==
  /\ IsUpdate /\ Succeeded
  /\ \E f, g \in DOMAIN last.secrets :
       /\ last.secrets[f] = Empty
       /\ Row(last.loaded, last.id).payload[Row(last.loaded, last.id).type].secrets[f] # Empty
       /\ last.secrets[g] # Empty /\ ~IsEncrypted(last.secrets[g])
       /\ Row(last.loaded, last.id).payload[Row(last.loaded, last.id).type].secrets[g]
            # Row(storages, last.id).payload[Row(storages, last.id).type].secrets[g]

\* C2: every sensitive field of every row is empty or carries the marker
\* and is one Decrypt away from a plaintext, and after a successful
\* SaveStorage (create or update) a field sent as plaintext p decrypts to p.
SavedRow ==
  IF last.id # Nil THEN Row(storages, last.id)
  ELSE CHOOSE s \in storages : s \notin prev

C2_PersistedSecretsAreCiphertext ==
  /\ \A s \in storages : \A t \in StorageTypes :
       \A f \in DOMAIN s.payload[t].secrets :
         LET v == s.payload[t].secrets[f]
         IN  v = Empty \/ (IsEncrypted(v) /\ ~IsEncrypted(Decrypt(s.id, v)))
  /\ (Calling("SaveStorage") /\ Succeeded) =>
       \A f \in DOMAIN last.secrets :
         (last.secrets[f] # Empty /\ ~IsEncrypted(last.secrets[f])) =>
           Decrypt(SavedRow.id, SavedRow.payload[SavedRow.type].secrets[f]) = last.secrets[f]

C2_Witness ==
  /\ Calling("SaveStorage") /\ Succeeded /\ last.id = Nil
  /\ \E f, g \in DOMAIN last.secrets :
       /\ last.secrets[f] # Empty /\ ~IsEncrypted(last.secrets[f])
       /\ IsEncrypted(SavedRow.payload[SavedRow.type].secrets[f])
       /\ SavedRow.payload[SavedRow.type].secrets[g] = Empty

\* C3: a system storage returned by GetStorage or GetStorages to an actor
\* who is not a global admin has all eight payloads nil, and still its id,
\* name and isSystem.
C3_SystemStorageHiddenFromNonAdmin ==
  ((Calling("GetStorage") \/ Calling("GetStorages")) /\ last.user.role # UserRoleAdmin) =>
    /\ \A r \in last.ret :
         r.isSystem =>
           /\ \A t \in StorageTypes : r.payload[t] = NullPayload
           /\ \E s \in storages : s.id = r.id /\ s.name = r.name /\ s.isSystem
    /\ \A s \in storages :
         (s.isSystem /\ Calling("GetStorage") /\ last.id = s.id) =>
           Succeeded /\ \E r \in last.ret : r.id = s.id
    /\ \A s \in storages :
         (s.isSystem /\ Calling("GetStorages") /\ Succeeded) =>
           \E r \in last.ret : r.id = s.id

C3_Witness ==
  /\ Calling("GetStorage") /\ last.user.role # UserRoleAdmin /\ Succeeded
  /\ \E r \in last.ret :
       /\ r.isSystem
       /\ Row(storages, r.id).payload["NAS"].config = "c1"
       /\ ~CanUserAccessWorkspace(Row(storages, r.id).workspaceID, last.user)

\* C4: every storage returned by GetStorage or GetStorages has every
\* sensitive field of a payload it carries empty, for every viewer, and the
\* non-sensitive configuration of that payload as persisted.
C4_ReturnedSecretsAreEmpty ==
  (Calling("GetStorage") \/ Calling("GetStorages")) =>
    \A r \in last.ret : \A t \in StorageTypes :
      ~r.payload[t].isNil =>
        /\ \A f \in DOMAIN r.payload[t].secrets : r.payload[t].secrets[f] = Empty
        /\ DOMAIN r.payload[t].secrets = SensitiveFields(t)
        /\ r.payload[t].config = Row(storages, r.id).payload[t].config

C4_Witness ==
  /\ Calling("GetStorages") /\ Succeeded
  /\ last.user.role = UserRoleAdmin
  /\ \E r \in last.ret :
       /\ r.isSystem
       /\ r.payload["S3"].config = "c2"
       /\ Row(storages, r.id).payload["S3"].secrets["s3SecretKey"] # Empty

\* The row a call addressed by id, as the call loaded it. A call is judged on
\* the copy it loaded and on prev, the rows its write found; what the
\* requests served between the load and the write make of it is the matter
\* of C18, C22 and C23.
Addressed == last.loaded

Unchanged == storages = prev

\* C5: a SaveStorage update of a row whose isSystem is true with an incoming
\* isSystem false fails for every actor and the row stays a system storage;
\* an update by a global admin that keeps isSystem true, in the row's
\* workspace, is refused by no permission or system-storage rule.
C5_SystemStorageCannotBeMadePrivate ==
  IsUpdate =>
    \A s \in Addressed :
      s.isSystem =>
        /\ ~last.isSystem =>
             /\ ~Succeeded
             /\ \E t \in storages : t.id = s.id /\ t.isSystem
        /\ (last.isSystem /\ last.user.role = UserRoleAdmin
              /\ last.workspaceID = s.workspaceID) =>
             /\ last.err \in {NoError, ErrValidation}
             /\ Succeeded => \E t \in storages : t.id = s.id /\ t.isSystem

C5_Witness ==
  /\ IsUpdate
  /\ last.user.role = UserRoleAdmin
  /\ ~last.isSystem
  /\ last.err = ErrSystemStorageCannotBeMadePrivate
  /\ \E s \in Addressed : s.isSystem

C5_AdminUpdateWitness ==
  /\ IsUpdate /\ Succeeded
  /\ last.user.role = UserRoleAdmin /\ last.isSystem
  /\ \E s \in Addressed : s.isSystem /\ s # Row(storages, s.id)

\* C6: an actor who is not a global admin never creates a system storage,
\* makes a row a system storage, updates a system storage or deletes one:
\* the call fails and the rows are as before.
C6_OnlyAdminManagesSystemStorage ==
  ( /\ last.user.role # UserRoleAdmin
    /\ \/ Calling("SaveStorage") /\ last.isSystem
       \/ Calling("SaveStorage") /\ \E s \in Addressed : s.isSystem
       \/ Calling("DeleteStorage") /\ \E s \in Addressed : s.isSystem )
  => (~Succeeded /\ Unchanged)

C6_Witness ==
  /\ last.user.id = "alice"
  /\ Calling("DeleteStorage")
  /\ \E s \in Addressed : s.isSystem /\ CanUserManageDBs(s.workspaceID, last.user)
  /\ last.attached = {}
  /\ last.err = ErrInsufficientPermissionsToManageStorage

C6_SaveWitness ==
  /\ last.user.id = "alice"
  /\ Calling("SaveStorage") /\ last.isSystem
  /\ \E s \in Addressed : ~s.isSystem /\ s.workspaceID = last.workspaceID
  /\ last.err = ErrInsufficientPermissionsToManageStorage

\* C7: when OnBeforeWorkspaceDeletion fails because the workspace owns a
\* system storage, it has deleted nothing.
C7_FailedWorkspaceDeletionDeletesNothing ==
  (Calling("OnBeforeWorkspaceDeletion") /\ last.err = ErrSystemStorageBlocksWorkspaceDeletion)
    => Unchanged

\* C8: for an actor permitted to delete the storage, DeleteStorage fails
\* with the attached-databases error and keeps the row when the attachment
\* counter answers a non-empty list, and removes the row when it is empty.
C8_DeleteGuardedByAttachments ==
  Calling("DeleteStorage") =>
    \A s \in Addressed :
      (CanUserManageDBs(s.workspaceID, last.user)
         /\ (s.isSystem => last.user.role = UserRoleAdmin)) =>
        IF last.attached # {}
        THEN last.err = ErrStorageHasAttachedDatabases /\ Unchanged
        ELSE Succeeded /\ storages = {t \in prev : t.id # s.id}

C8_Witness ==
  /\ Calling("DeleteStorage")
  /\ last.err = ErrStorageHasAttachedDatabases
  /\ last.user.id = "alice"
  /\ Addressed # {}

C8_DeletedWitness ==
  /\ Calling("DeleteStorage") /\ Succeeded
  /\ Addressed # {} /\ FindByID(storages, last.id) = {}
  /\ storages # {}

\* C9: a transfer of a non-system storage by an actor with management
\* rights in both workspaces succeeds exactly when no database is attached,
\* or one database is attached and it is the one named in the call.
C9_TransferGuardedByAttachments ==
  Calling("TransferStorageToWorkspace") =>
    \A s \in Addressed :
      (~s.isSystem /\ CanUserManageDBs(s.workspaceID, last.user)
         /\ CanUserManageDBs(last.workspaceID, last.user)) =>
        /\ Succeeded <=>
             \/ last.attached = {}
             \/ (Cardinality(last.attached) = 1 /\ last.single # Nil
                   /\ last.attached = {last.single})
        /\ Cardinality(last.attached) >= 2 => ~Succeeded /\ Unchanged
        /\ (last.attached # {} /\ last.single = Nil) =>
             last.err = ErrStorageHasAttachedDatabasesCannotTransfer /\ Unchanged

C9_Witness ==
  /\ Calling("TransferStorageToWorkspace")
  /\ last.user.id = "alice"
  /\ Cardinality(last.attached) >= 2 /\ last.single \in last.attached
  /\ last.err = ErrStorageHasOtherAttachedDatabasesCannotTransfer

C9_TransferredWitness ==
  /\ Calling("TransferStorageToWorkspace") /\ Succeeded
  /\ last.user.id = "alice"
  /\ last.attached = {last.single}
  /\ \E s \in Addressed : s.workspaceID # Row(storages, s.id).workspaceID

\* C10: a transfer of a system storage fails with the
\* system-storage-cannot-be-transferred error for every actor, target and
\* set of attached databases, and the row keeps its workspace.
C10_SystemStorageNeverTransferred ==
  Calling("TransferStorageToWorkspace") =>
    \A s \in Addressed :
      s.isSystem =>
        /\ last.err = ErrSystemStorageCannotBeTransferred
        /\ \E t \in storages : t.id = s.id /\ t.workspaceID = s.workspaceID
        /\ Unchanged

C10_Witness ==
  /\ Calling("TransferStorageToWorkspace")
  /\ last.user.role = UserRoleAdmin
  /\ last.attached = {}
  /\ \E s \in Addressed : s.isSystem /\ s.workspaceID # last.workspaceID
  /\ last.err = ErrSystemStorageCannotBeTransferred

\* C11: a transfer of a non-system storage fails with the source-permission
\* error when the actor lacks management rights in the storage's workspace,
\* with the target-permission error when the actor has them there but not in
\* the target workspace, and a transfer that succeeds was asked by an actor
\* with both, leaves the row in the target workspace with every other field
\* as before, and leaves every other row alone.
C11_TransferNeedsBothWorkspaces ==
  Calling("TransferStorageToWorkspace") =>
    \A s \in Addressed :
      /\ (~s.isSystem /\ ~CanUserManageDBs(s.workspaceID, last.user)) =>
           last.err = ErrInsufficientPermissionsInSourceWorkspace /\ Unchanged
      /\ (~s.isSystem /\ CanUserManageDBs(s.workspaceID, last.user)
            /\ ~CanUserManageDBs(last.workspaceID, last.user)) =>
           last.err = ErrInsufficientPermissionsInTargetWorkspace /\ Unchanged
      /\ Succeeded =>
           /\ CanUserManageDBs(s.workspaceID, last.user)
           /\ CanUserManageDBs(last.workspaceID, last.user)
           /\ storages = {t \in prev : t.id # s.id}
                          \cup {[s EXCEPT !.workspaceID = last.workspaceID]}

C11_Witness ==
  /\ Calling("TransferStorageToWorkspace")
  /\ last.user.id = "carol"
  /\ last.attached = {}
  /\ \E s \in Addressed : ~s.isSystem /\ s.workspaceID = "W1" /\ last.workspaceID = "W2"
  /\ last.err = ErrInsufficientPermissionsInTargetWorkspace

C11_SourceWitness ==
  /\ Calling("TransferStorageToWorkspace")
  /\ last.user.id = "dave"
  /\ \E s \in Addressed : ~s.isSystem /\ s.workspaceID = "W1" /\ last.workspaceID = "W2"
  /\ last.err = ErrInsufficientPermissionsInSourceWorkspace

C11_TransferredWitness ==
  /\ Calling("TransferStorageToWorkspace") /\ Succeeded
  /\ last.user.role # UserRoleAdmin
  /\ Cardinality(storages) = 2
  /\ \E s \in Addressed :
       /\ s.workspaceID = "W1"
       /\ Row(storages, s.id).workspaceID = "W2"
       /\ s.type = "NAS"
       /\ s.payload["NAS"].secrets["password"] # Empty

\* C12: after TestStorageConnection on a row the actor may view, the row's
\* lastSaveError is the error of the probe when the probe failed and is
\* absent when it succeeded.
C12_TestConnectionPersistsOutcome ==
  Calling("TestStorageConnection") =>
    \A s \in Addressed :
      CanUserAccessWorkspace(s.workspaceID, last.user) =>
        Row(storages, s.id).lastSaveError
          = (IF last.probe # NoError THEN last.probe ELSE "")

\* C13: a SaveStorage, DeleteStorage or TransferStorageToWorkspace that
\* returns an error returns one of the permission, not-found, constraint and
\* validation errors, leaves the rows as they were and writes no audit
\* entry.
MutatingCall ==
  Calling("SaveStorage") \/ Calling("DeleteStorage") \/ Calling("TransferStorageToWorkspace")

RefusalErrors ==
  { ErrInsufficientPermissionsToManageStorage,
    ErrInsufficientPermissionsInSourceWorkspace,
    ErrInsufficientPermissionsInTargetWorkspace,
    ErrLocalStorageNotAllowedInCloudMode,
    ErrRecordNotFound,
    ErrStorageDoesNotBelongToWorkspace,
    ErrSystemStorageCannotBeMadePrivate,
    ErrSystemStorageCannotBeTransferred,
    ErrStorageHasAttachedDatabases,
    ErrStorageHasAttachedDatabasesCannotTransfer,
    ErrStorageHasOtherAttachedDatabasesCannotTransfer,
    ErrValidation }

C13_RefusedCallChangesNothing ==
  (MutatingCall /\ ~Succeeded) =>
    /\ last.err \in RefusalErrors
    /\ Unchanged
    /\ last.audit = 0

C13_Witness ==
  /\ IsUpdate
  /\ last.err = ErrValidation
  /\ last.user.id = "alice"
  /\ \E s \in Addressed : s.name # "" /\ s.workspaceID = last.workspaceID
  /\ Cardinality(storages) = 2

C13_TransferWitness ==
  /\ Calling("TransferStorageToWorkspace")
  /\ last.err = ErrStorageHasAttachedDatabasesCannotTransfer
  /\ Addressed # {}
  /\ last.audit = 0

\* C14 as stated: GetStorage answers only an actor with view rights on the
\* workspace that owns the storage, GetStorages only an actor with view
\* rights on the requested workspace; any other actor gets the
\* insufficient-permissions error and no data.
C14_ViewRightsRequired ==
  /\ Calling("GetStorage") =>
       \A s \in Addressed :
         ~CanUserAccessWorkspace(s.workspaceID, last.user) =>
           last.err = ErrInsufficientPermissionsToViewStorage /\ last.ret = {}
  /\ (Calling("GetStorages") /\ ~CanUserAccessWorkspace(last.workspaceID, last.user)) =>
       last.err = ErrInsufficientPermissionsToViewStorages /\ last.ret = {}

\* C14 amended: GetStorage answers with a storage that is not a system
\* storage only an actor with view rights on the owning workspace, and any
\* other actor gets the insufficient-permissions error and no data; a
\* system storage is answered to every actor; GetStorages answers only an
\* actor with view rights on the requested workspace.
C14_ViewRightsRequiredUnlessSystem ==
  /\ Calling("GetStorage") =>
       \A s \in Addressed :
         /\ (~s.isSystem /\ ~CanUserAccessWorkspace(s.workspaceID, last.user)) =>
              last.err = ErrInsufficientPermissionsToViewStorage /\ last.ret = {}
         /\ (s.isSystem \/ CanUserAccessWorkspace(s.workspaceID, last.user)) =>
              Succeeded /\ \E r \in last.ret : r.id = s.id
  /\ Calling("GetStorages") =>
       IF CanUserAccessWorkspace(last.workspaceID, last.user)
       THEN Succeeded
       ELSE last.err = ErrInsufficientPermissionsToViewStorages /\ last.ret = {}

C14_Witness ==
  /\ Calling("GetStorage")
  /\ last.user.id = "bob"
  /\ \E s \in Addressed : ~s.isSystem /\ s.workspaceID = "W2"
  /\ last.err = ErrInsufficientPermissionsToViewStorage

C14_ViewerWitness ==
  /\ Calling("GetStorage") /\ Succeeded
  /\ last.user.id = "bob"
  /\ \E s \in Addressed : ~s.isSystem /\ s.workspaceID = "W1"

\* C15: a GetStorages that succeeds returns exactly the storages of the
\* requested workspace that are not system storages and every system
\* storage of any workspace, so never a storage of another workspace that
\* is not a system storage.
C15_ListingIsWorkspaceAndSystem ==
  (Calling("GetStorages") /\ Succeeded) =>
    /\ {r.id : r \in last.ret}
         = {s.id : s \in {t \in storages :
                            \/ (t.workspaceID = last.workspaceID /\ ~t.isSystem)
                            \/ t.isSystem}}
    /\ \A r \in last.ret :
         /\ r.workspaceID = Row(storages, r.id).workspaceID
         /\ r.isSystem = Row(storages, r.id).isSystem
         /\ r.workspaceID # last.workspaceID => r.isSystem

C15_Witness ==
  /\ Calling("GetStorages") /\ Succeeded
  /\ last.user.id = "bob"
  /\ \E s \in storages :
       ~s.isSystem /\ s.workspaceID # last.workspaceID /\ ~\E r \in last.ret : r.id = s.id
  /\ \E r \in last.ret : r.isSystem /\ r.workspaceID # last.workspaceID

\* C16: SaveStorage fails with the insufficient-permissions error and
\* changes no row when the actor lacks management rights on the workspace
\* of the call, and DeleteStorage when the actor lacks them on the workspace
\* of the storage; an owner, admin or member of the workspace and a global
\* admin are not refused for lack of permission when the storage neither is
\* nor becomes a system storage.
C16_ManagementRightsRequired ==
  /\ Calling("SaveStorage") =>
       /\ ~CanUserManageDBs(last.workspaceID, last.user) =>
            last.err = ErrInsufficientPermissionsToManageStorage /\ Unchanged
       /\ ( /\ \/ last.user.role = UserRoleAdmin
                \/ WorkspaceRole(last.workspaceID, last.user) \in {"OWNER", "ADMIN", "MEMBER"}
             /\ ~last.isSystem ) =>
            last.err # ErrInsufficientPermissionsToManageStorage
  /\ Calling("DeleteStorage") =>
       \A s \in Addressed :
         /\ ~CanUserManageDBs(s.workspaceID, last.user) =>
              last.err = ErrInsufficientPermissionsToManageStorage /\ Unchanged
         /\ ( /\ \/ last.user.role = UserRoleAdmin
                  \/ WorkspaceRole(s.workspaceID, last.user) \in {"OWNER", "ADMIN", "MEMBER"}
               /\ ~s.isSystem ) =>
              last.err \in {NoError, ErrStorageHasAttachedDatabases}

C16_Witness ==
  /\ Calling("SaveStorage")
  /\ last.user.id = "bob" /\ last.workspaceID = "W1"
  /\ ~last.isSystem /\ last.type = "NAS"
  /\ \E s \in Addressed : ~s.isSystem /\ s.workspaceID = "W1"
  /\ last.err = ErrInsufficientPermissionsToManageStorage

C16_StrangerDeleteWitness ==
  /\ Calling("DeleteStorage")
  /\ last.user.id = "dave" /\ last.attached = {}
  /\ \E s \in Addressed : ~s.isSystem /\ s.workspaceID = "W1"
  /\ last.err = ErrInsufficientPermissionsToManageStorage

C16_OwnerWitness ==
  /\ Calling("SaveStorage") /\ Succeeded
  /\ last.user.id = "carol" /\ last.id = Nil

C16_AdminWitness ==
  /\ Calling("DeleteStorage") /\ Succeeded
  /\ last.user.id = "dave"
  /\ \E s \in Addressed : s.workspaceID = "W2"

C16_MemberWitness ==
  /\ IsUpdate /\ Succeeded
  /\ last.user.id = "alice"
  /\ \E s \in Addressed : s # Row(storages, s.id)

\* C17: when OnBeforeWorkspaceDeletion succeeds, no storage it listed as a
\* storage of the workspace that is not a system storage is left, every row
\* it removed is one of those, and it has written no row: the system
\* storages of other workspaces and the storages it did not list are
\* persisted as before.
C17_WorkspaceDeletionFrame ==
  (Calling("OnBeforeWorkspaceDeletion") /\ Succeeded) =>
    /\ \A s \in last.loaded :
         (s.workspaceID = last.workspaceID /\ ~s.isSystem) => FindByID(storages, s.id) = {}
    /\ \A t \in prev \ storages :
         \E s \in last.loaded :
           s.id = t.id /\ s.workspaceID = last.workspaceID /\ ~s.isSystem
    /\ storages \subseteq prev

C17_Witness ==
  /\ Calling("OnBeforeWorkspaceDeletion") /\ Succeeded
  /\ \E s \in prev : s.workspaceID = last.workspaceID /\ s \notin storages
  /\ \E s \in storages \cap last.loaded : s.isSystem /\ s.workspaceID # last.workspaceID

\* C18: when two SaveStorage updates of one storage both load the row
\* before either saves and both succeed, the row holds in each sensitive
\* field the encryption of the value of the last of the two that sent the
\* field non-empty (the value loaded when neither did), and the
\* configuration and the name of the second.
BothInterleaved ==
  /\ Len(writes) = 2
  /\ \A slot \in Slots :
       /\ inflight[slot].phase = "done"
       /\ inflight[slot].err = NoError
       /\ inflight[slot].loadedAt = 0

C18_InterleavedUpdatesMergeFieldwise ==
  BothInterleaved =>
    LET first == inflight[writes[1]]
        second == inflight[writes[2]]
        type == second.storage.type
        final == Row(storages, second.storage.id)
    IN  /\ final.name = second.storage.name
        /\ final.payload[type].config = second.storage.payload[type].config
        /\ \A f \in SensitiveFields(type) :
             final.payload[type].secrets[f] =
               IF second.storage.payload[type].secrets[f] # Empty
                 THEN EncryptField(final.id, second.storage.payload[type].secrets[f])
               ELSE IF first.storage.payload[type].secrets[f] # Empty
                 THEN EncryptField(final.id, first.storage.payload[type].secrets[f])
               ELSE first.existing.payload[type].secrets[f]

\* C19: a row removed by DeleteStorage or OnBeforeWorkspaceDeletion is one
\* for which the attachment counter answers no database.
C19_RemovedOnlyWhenUnreferenced ==
  (Calling("DeleteStorage") \/ Calling("OnBeforeWorkspaceDeletion")) =>
    \A s \in prev :
      (s.id = last.id /\ FindByID(storages, s.id) = {}) => last.attached = {}

\* C20 as stated: in cloud mode SaveStorage and TestStorageConnectionDirect
\* with an incoming Local storage fail with the local-storage-not-allowed
\* error for every actor who is not a global admin and save nothing; for a
\* global admin and outside cloud mode that error is not returned.
LocalInCloudByNonAdmin ==
  /\ Calling("SaveStorage") \/ Calling("TestStorageConnectionDirect")
  /\ isCloud
  /\ last.type = "LOCAL"
  /\ last.user.role # UserRoleAdmin

C20_LocalRefusedInCloud ==
  /\ LocalInCloudByNonAdmin =>
       last.err = ErrLocalStorageNotAllowedInCloudMode /\ Unchanged
  /\ ( /\ Calling("SaveStorage") \/ Calling("TestStorageConnectionDirect")
       /\ ~isCloud \/ last.user.role = UserRoleAdmin ) =>
       last.err # ErrLocalStorageNotAllowedInCloudMode

\* C20 amended: SaveStorage checks the management rights first, so the
\* actor without them gets the insufficient-permissions error instead; in
\* either case nothing is saved.
C20_LocalRefusedInCloudAfterRights ==
  /\ LocalInCloudByNonAdmin =>
       /\ last.err =
            (IF Calling("SaveStorage") /\ ~CanUserManageDBs(last.workspaceID, last.user)
             THEN ErrInsufficientPermissionsToManageStorage
             ELSE ErrLocalStorageNotAllowedInCloudMode)
       /\ Unchanged
  /\ ( /\ Calling("SaveStorage") \/ Calling("TestStorageConnectionDirect")
       /\ ~isCloud \/ last.user.role = UserRoleAdmin ) =>
       last.err # ErrLocalStorageNotAllowedInCloudMode

C20_Witness ==
  /\ Calling("SaveStorage") /\ isCloud /\ last.type = "LOCAL"
  /\ last.user.id = "alice" /\ last.id = Nil /\ ~last.isSystem
  /\ last.err = ErrLocalStorageNotAllowedInCloudMode

C20_DirectWitness ==
  /\ Calling("TestStorageConnectionDirect") /\ isCloud /\ last.type = "LOCAL"
  /\ last.user.id = "bob" /\ last.probe = NoError
  /\ last.err = ErrLocalStorageNotAllowedInCloudMode

C20_AdminWitness ==
  /\ Calling("SaveStorage") /\ isCloud /\ last.type = "LOCAL"
  /\ last.user.role = UserRoleAdmin /\ Succeeded
  /\ \E s \in storages : s.type = "LOCAL" /\ s \notin prev

C20_DirectProbedWitness ==
  /\ Calling("TestStorageConnectionDirect") /\ ~isCloud /\ last.type = "LOCAL"
  /\ last.user.role # UserRoleAdmin /\ last.id # Nil
  /\ last.err = ErrConnectionFailed

\* ------------------------------------------------------------------- C21
\* The storage has exactly one active variant: the payload of its type is
\* not null and every other payload is null.
OneActiveVariant(storage) ==
  /\ ~storage.payload[storage.type].isNil
  /\ \A t \in StorageTypes \ {storage.type} : storage.payload[t].isNil

\* C21: in the storage editor, after the type was changed with
\* setStorageType, the payload of the new type is non-null and every other
\* variant payload is null, whatever the previous and the new type, so the
\* storage the form submits has exactly one active variant.
C21_TypeChangeLeavesOneVariant ==
  EditorMounted(form) => OneActiveVariant(form.storage)

\* ------------------------------------------------------------------- C28
\* C28: the Save button of the edit form is offered only when the most
\* recent connection test succeeded and neither the type nor a field of a
\* variant payload was changed since that test was sent.
C28_SaveOnlyAfterTestOfCurrentSettings ==
  SaveOffered(form) => form.lastTest = "ok" /\ ~form.changedSinceTest

\* ------------------------------------------------------------------- C29
\* C29: on the storage page the "Storage settings" header is rendered for
\* every non-system storage and, for a system storage, only for a global
\* admin; its pen is rendered when the user can manage storages and the
\* settings are not being edited.
C29_SettingsHeaderRendered ==
  (form.view = "page" /\ form.hasStorage) =>
    /\ SettingsHeaderRendered(form)
         <=> (~form.loaded.isSystem \/ form.user.role = UserRoleAdmin)
    /\ SettingsPenRendered(form)
         <=> /\ ~form.loaded.isSystem \/ form.user.role = UserRoleAdmin
             /\ form.isCanManageStorages /\ ~form.isEditSettings

\* ------------------------------------------------------------------- C30
\* C30: a call of authenticateWithRetry dials at most two connections, gives
\* PLAIN to client.Auth before LOGIN and nothing after LOGIN, has called
\* cleanup on the first connection when the second one is dialled, and
\* leaves no connection without cleanup or Close when it returns an error.
C30_RetryOpensTwoAndCleansUp ==
  /\ Len(smtp.conns) <= 2
  /\ smtp.attempts \in {<< >>, <<"PLAIN">>, <<"PLAIN", "LOGIN">>}
  /\ Len(smtp.conns) = 2 => smtp.conns[1] # "open"
  /\ smtp.pc \in {"create2", "login"} => smtp.conns[1] = "quit"
  /\ smtp.err = ErrAuthentication =>
       smtp.pc \in {"returned", "done"} /\ smtp.attempts = <<"PLAIN", "LOGIN">>
  /\ smtp.pc = "returned" /\ smtp.err # NoError =>
       \A i \in DOMAIN smtp.conns : smtp.conns[i] # "open"

\* LOGIN failed after PLAIN failed: two connections, both cleaned up.
C30_Witness ==
  /\ smtp.pc = "returned"
  /\ smtp.err = ErrAuthentication
  /\ smtp.conns = <<"quit", "quit">>
  /\ smtp.attempts = <<"PLAIN", "LOGIN">>

\* The second createClient failed after PLAIN failed.
C30_SecondDialWitness ==
  /\ smtp.pc = "returned"
  /\ smtp.err = ErrHello
  /\ smtp.conns = <<"quit", "closed">>

\* LOGIN succeeded on the second connection, which is returned open.
C30_LoginWitness ==
  /\ smtp.pc = "returned"
  /\ smtp.err = NoError
  /\ smtp.conns = <<"quit", "open">>

\* ------------------------------------------------------------------- C22
\* C22: the write-back of TestStorageConnection changes no field of the
\* persisted record other than lastSaveError, whatever SaveStorage or
\* TransferStorageToWorkspace committed while the probe was running.
C22_TestWritesOnlyLastSaveError ==
  Calling("TestStorageConnection") =>
    \A before \in FindByID(prev, last.id) :
      \A after \in FindByID(storages, last.id) :
        [after EXCEPT !.lastSaveError = ""] = [before EXCEPT !.lastSaveError = ""]

\* ------------------------------------------------------------------- C23
\* C23: in every step of every interleaving of SaveStorage,
\* TransferStorageToWorkspace and TestStorageConnection, a persisted
\* storage that is a system storage stays one and keeps its workspace.
C23_SystemStorageStaysSystemAndInPlace ==
  [][ \A s \in storages : s.isSystem =>
        \A t \in storages' : t.id = s.id =>
          t.isSystem /\ t.workspaceID = s.workspaceID ]_vars

\* ------------------------------------------------------------------- C24
\* The call wrote a row into another workspace than the one it loaded it
\* from.
WorkspaceChanged ==
  \E s \in last.loaded : \E t \in storages \ prev :
    t.id = s.id /\ t.workspaceID # s.workspaceID

\* SaveStorage with the id of a row of another workspace than the supplied
\* one.
UpdateOfForeignRow ==
  IsUpdate /\ \E s \in Addressed : s.workspaceID # last.workspaceID

\* The checks SaveStorage makes before it loads the row all pass.
PassesEarlyChecks ==
  /\ CanUserManageDBs(last.workspaceID, last.user)
  /\ ~(isCloud /\ last.type = "LOCAL" /\ last.user.role # UserRoleAdmin)
  /\ ~(last.isSystem /\ last.user.role # UserRoleAdmin)

\* C24 as stated: the workspace of a persisted storage is changed only by a
\* successful TransferStorageToWorkspace; SaveStorage with the id of a row
\* of another workspace fails with the does-not-belong error; a successful
\* SaveStorage update leaves the workspace unchanged.
C24_WorkspaceChangedOnlyByTransfer ==
  /\ WorkspaceChanged => Calling("TransferStorageToWorkspace") /\ Succeeded
  /\ UpdateOfForeignRow => last.err = ErrStorageDoesNotBelongToWorkspace
  /\ IsUpdate /\ Succeeded =>
       \A s \in Addressed : Row(storages, s.id).workspaceID = s.workspaceID

\* C24, amended: the workspace of a persisted storage is changed only by a
\* successful TransferStorageToWorkspace; SaveStorage with the id of a row
\* of another workspace fails and changes nothing, with the
\* does-not-belong error when the request passes the checks made before
\* the row is loaded and with the error of the first of those checks
\* otherwise; a successful SaveStorage update leaves the workspace
\* unchanged.
C24_WorkspaceChangedOnlyByTransferAfterChecks ==
  /\ WorkspaceChanged => Calling("TransferStorageToWorkspace") /\ Succeeded
  /\ UpdateOfForeignRow =>
       /\ Unchanged
       /\ last.audit = 0
       /\ IF PassesEarlyChecks
            THEN last.err = ErrStorageDoesNotBelongToWorkspace
          ELSE IF ~CanUserManageDBs(last.workspaceID, last.user)
            THEN last.err = ErrInsufficientPermissionsToManageStorage
          ELSE IF isCloud /\ last.type = "LOCAL" /\ last.user.role # UserRoleAdmin
            THEN last.err = ErrLocalStorageNotAllowedInCloudMode
          ELSE last.err = ErrInsufficientPermissionsToManageStorage
  /\ IsUpdate /\ Succeeded =>
       \A s \in Addressed : Row(storages, s.id).workspaceID = s.workspaceID

\* An update naming another workspace than the row's is refused with the
\* does-not-belong error.
C24_Witness ==
  /\ UpdateOfForeignRow
  /\ PassesEarlyChecks
  /\ last.err = ErrStorageDoesNotBelongToWorkspace

\* The same update by an actor without rights on the supplied workspace.
C24_StrangerWitness ==
  /\ UpdateOfForeignRow
  /\ last.err = ErrInsufficientPermissionsToManageStorage
  /\ ~CanUserManageDBs(last.workspaceID, last.user)

\* A transfer moved the storage.
C24_MovedWitness ==
  /\ Calling("TransferStorageToWorkspace") /\ Succeeded
  /\ WorkspaceChanged

\* An update succeeded and the row stayed in its workspace.
C24_UpdatedWitness ==
  /\ IsUpdate /\ Succeeded
  /\ \E s \in Addressed : Row(storages, s.id) # s /\ Row(storages, s.id).workspaceID = s.workspaceID

\* ------------------------------------------------------------------- C25
\* The probe of a direct-test request ran: the answer is the probe's.
ProbeRan == last.err \in Probes

\* A direct-test request whose probe ran on secrets taken from the
\* persisted storage: a sensitive field the request left empty and the row
\* holds.
StoredSecretProbed ==
  /\ Calling("TestStorageConnectionDirectRequest")
  /\ last.id # Nil
  /\ ProbeRan
  /\ \E s \in Addressed : \E f \in SensitiveFields(last.type) :
       last.secrets[f] = Empty /\ s.payload[last.type].secrets[f] # Empty

\* C25: a probe combining the secrets of a persisted storage with the
\* connection settings of the request is run only for an actor with
\* management rights on the workspace of that storage.
C25_StoredSecretsProbedOnlyForManagers ==
  StoredSecretProbed =>
    \A s \in Addressed : CanUserManageDBs(s.workspaceID, last.user)

\* ------------------------------------------------------------------- C26
DirectTest ==
  Calling("TestStorageConnectionDirect") \/ Calling("TestStorageConnectionDirectRequest")

\* C26: TestStorageConnectionDirect writes neither to the repository nor to
\* the audit log, whatever its outcome: the rows, with their secrets and
\* lastSaveError, are as they were.
C26_DirectTestWritesNothing ==
  DirectTest => Unchanged /\ last.audit = 0

\* The probe succeeded on the merge of a persisted row and a request that
\* differs from it.
C26_Witness ==
  /\ Calling("TestStorageConnectionDirectRequest")
  /\ last.id # Nil
  /\ last.err = NoError /\ last.probe = NoError
  /\ \E s \in Addressed : s.payload[last.type].config # last.config

\* The probe failed on a persisted row.
C26_ConnectionFailureWitness ==
  /\ Calling("TestStorageConnectionDirect")
  /\ last.err = ErrConnectionFailed
  /\ Addressed # {}

\* The workspace of the request is not the row's.
C26_MismatchWitness ==
  /\ Calling("TestStorageConnectionDirect")
  /\ last.err = ErrStorageDoesNotBelongToWorkspace

\* Cloud mode refuses the Local storage of a non-admin.
C26_CloudWitness ==
  /\ Calling("TestStorageConnectionDirect")
  /\ last.err = ErrLocalStorageNotAllowedInCloudMode
  /\ Addressed # {}

\* ------------------------------------------------------------------- C27
AuditedOperations == {"SaveStorage", "DeleteStorage", "TransferStorageToWorkspace"}

\* C27: a call writes one audit entry when it is a successful SaveStorage,
\* DeleteStorage or TransferStorageToWorkspace, whose write is then in the
\* repository, and none when it failed or is a read, a connection test or
\* OnBeforeWorkspaceDeletion.
C27_AuditedExactlyWhenWritten ==
  last # NoCall =>
    /\ last.audit = IF last.op \in AuditedOperations /\ Succeeded THEN 1 ELSE 0
    /\ last.audit = 1 /\ Calling("SaveStorage") =>
         \E t \in storages : IF last.id # Nil THEN t.id = last.id ELSE t \notin prev
    /\ last.audit = 1 /\ Calling("DeleteStorage") =>
         Addressed # {} /\ FindByID(storages, last.id) = {}
    /\ last.audit = 1 /\ Calling("TransferStorageToWorkspace") =>
         \E t \in FindByID(storages, last.id) : t.workspaceID = last.workspaceID

\* A create refused by Validate wrote no audit entry.
C27_Witness ==
  /\ Calling("SaveStorage") /\ last.id = Nil
  /\ last.err = ErrValidation
  /\ last.audit = 0

\* A create, an update, a deletion and a transfer wrote one entry each.
C27_CreatedWitness ==
  Calling("SaveStorage") /\ last.id = Nil /\ Succeeded /\ last.audit = 1

C27_UpdatedWitness ==
  IsUpdate /\ Succeeded /\ last.audit = 1

C27_DeletedWitness ==
  Calling("DeleteStorage") /\ Succeeded /\ last.audit = 1

C27_TransferredWitness ==
  Calling("TransferStorageToWorkspace") /\ Succeeded /\ last.audit = 1

\* A successful connection test wrote to the repository and not to the log.
C27_TestedWitness ==
  Calling("TestStorageConnection") /\ Succeeded /\ last.audit = 0

====
